---- MODULE Spec2Model ----
(***************************************************************************)
(* State-machine model of the moemail request handlers: activation-code    *)
(* redemption, permanent-email promotion, the admin email endpoints, the   *)
(* admin activation-code endpoints and the admin user endpoints, over the  *)
(* relational tables user, role, user_role, email and activation_code.     *)
(* Every action is one whole request, executed one at a time.              *)
(* Time is counted in hours since the epoch.                               *)
(***************************************************************************)
EXTENDS Integers, Sequences, FiniteSets, TLC

(* ---------------------------------------------------------------- bounds *)
MaxUsers == 3
MaxEmails == 2
MaxCodes == 2
MaxTicks == 2
MaxInflight == 2
MaxRoleList == 2
MaxApiKeys == 1
MaxClock == 20

(* ------------------------------------------------------ program constants *)
\* new Date('9999-01-01T00:00:00.000Z'), in hours since the epoch
PermanentExpiry == 70380768
PAGE_SIZE == 20
RATE_LIMIT_WINDOW == 15
RATE_LIMIT_MAX_ATTEMPTS == 5
\* expiryDays * 24 * 60 * 60 * 1000 ms, in hours
HoursPerDay == 24

NULL == 0
NoDate == -1
Undefined == -1

ROLES == {"emperor", "duke", "knight", "student", "civilian"}

PERMISSIONS == {"manage_email", "manage_webhook", "promote_user", "manage_config",
                "manage_api_key", "set_permanent_email", "manage_students", "create_email"}

ROLE_PERMISSIONS ==
  [r \in ROLES |->
     CASE r = "emperor" -> PERMISSIONS
       [] r = "duke" -> {"manage_email", "manage_webhook", "manage_api_key", "create_email"}
       [] r = "knight" -> {"manage_email", "manage_webhook", "create_email"}
       [] r = "student" -> {"manage_email", "manage_webhook", "set_permanent_email"}
       [] OTHER -> {}]

\* every role of the list has to hold the permission
hasPermissionEvery(userRoleNames, permission) ==
  \A role \in userRoleNames : permission \in ROLE_PERMISSIONS[role]
\* userRoles.some(role => ROLE_PERMISSIONS[role]?.includes(permission))
hasPermission(userRoleNames, permission) ==
  \E role \in userRoleNames : permission \in ROLE_PERMISSIONS[role]

(* ------------------------------------------------------------- addresses *)
\* strings are sequences of characters
Lower(c) == IF c = "A" THEN "a" ELSE IF c = "B" THEN "b" ELSE IF c = "R" THEN "r" ELSE c

toLowerCase(s) == [i \in 1..Len(s) |-> Lower(s[i])]

\* domains[0]; stands for "moemail.app"
domain == <<"m">>

\* `${local}@${domain}`
fullAddress(local) == local \o <<"@">> \o domain

\* request values for the local part of an address
LocalParts == {<<"a", "b">>, <<"A", "b">>}

Usernames == {"u1", "u2"}
\* code strings, as <<"K", i>>; one per code row the model can hold
CodeStrings == {<<"K", i>> : i \in 1..MaxCodes}
UnknownCode == <<"K", 0>>

UserIds == 1..MaxUsers
EmailIds == 1..MaxEmails
CodeIds == 1..MaxCodes

VARIABLES users, roles, userRoles, emails, activationCodes, nextId, now, redeemed, lastWrite,
          apiKeys, webhooks, rateLimitMap, admitted, clock, inflight, asked, listed

vars == <<users, roles, userRoles, emails, activationCodes, nextId, now, redeemed, lastWrite,
          apiKeys, webhooks, rateLimitMap, admitted, clock, inflight, asked, listed>>

\* what the requests of Next and NextEmails, which run one at a time and reach
\* neither the webhook table nor the rate limiter, leave alone
others == <<webhooks, rateLimitMap, admitted, clock, inflight, asked, listed>>

\* the database as one value
DB == [users |-> users, roles |-> roles, userRoles |-> userRoles, emails |-> emails,
       activationCodes |-> activationCodes, apiKeys |-> apiKeys, nextId |-> nextId]

(* ------------------------------------------------------------ table access *)
\* role names held by a user, through user_role and role
RoleNames(db, uid) == {db.roles[ur[2]] : ur \in {x \in db.userRoles : x[1] = uid}}

\* rows of a user
EmailsOf(db, uid) == {e \in DOMAIN db.emails : db.emails[e].userId = uid}

PermanentEmailsOf(db, uid) == {e \in EmailsOf(db, uid) : db.emails[e].isPermanent}

Range(list) == {list[i] : i \in DOMAIN list}

Put(f, k, v) == [x \in DOMAIN f \cup {k} |-> IF x = k THEN v ELSE f[x]]

Drop(f, ks) == [x \in DOMAIN f \ ks |-> f[x]]

\* any signed-in caller passes
checkPermissionAnyUser(db, caller, permission) ==
  caller \in DOMAIN db.users

\* checkPermission of lib/auth: the caller's roles are looked up and tested
checkPermission(db, caller, permission) ==
  /\ caller \in DOMAIN db.users
  /\ hasPermission(RoleNames(db, caller), permission)

\* a response together with the database it leaves
Result(db, status, err) ==
  [db |-> db, status |-> status, err |-> err, uid |-> NULL, eid |-> NULL, cid |-> NULL]

\* without a transaction the writes made before a throw stay
TransactionKeepsPartial(snapshot, outcome) == outcome
\* db.transaction: commit what the callback wrote, or roll back when it threw
Transaction(snapshot, outcome) ==
  IF outcome.status = 500 THEN [outcome EXCEPT !.db = snapshot] ELSE outcome

(* ------------------------------------------------- activation redemption *)
Faults == {"none", "user", "role", "user_role", "email", "activation_code"}

\* a role row is inserted without looking for an existing one
findOrCreateRoleAlways(rolesTable, roleName) ==
  [id |-> Len(rolesTable) + 1, roles |-> Append(rolesTable, roleName)]
\* findOrCreateRole: the role row id, and the roles table after the call
findOrCreateRole(rolesTable, roleName) ==
  IF \E i \in 1..Len(rolesTable) : rolesTable[i] = roleName
  THEN [id |-> CHOOSE i \in 1..Len(rolesTable) :
                 /\ rolesTable[i] = roleName
                 /\ \A j \in 1..(i - 1) : rolesTable[j] # roleName,
        roles |-> rolesTable]
  ELSE [id |-> Len(rolesTable) + 1, roles |-> Append(rolesTable, roleName)]

\* assignRoleToUser of lib/auth: the user holds the role afterwards
assignRoleToUser(db, userId, roleId) ==
  [db EXCEPT !.userRoles = @ \cup {<<userId, roleId>>}]

\* steps 5-8 of the redemption transaction; status 500 stands for a thrown error
ActivateWrites(db, t, cid, username, permanentEmail, fault) ==
  LET uid == db.nextId.user
      eid == db.nextId.email
      db1 == [db EXCEPT !.users = Put(@, uid, [username |-> username, enabled |-> TRUE]),
                        !.nextId.user = @ + 1]
      fr == findOrCreateRole(db1.roles, "student")
      db2 == [db1 EXCEPT !.roles = fr.roles]
      db3 == assignRoleToUser(db2, uid, fr.id)
      address == fullAddress(permanentEmail)
      db4 == [db3 EXCEPT !.emails = Put(@, eid, [address |-> address, userId |-> uid,
                                                  expiresAt |-> PermanentExpiry,
                                                  isPermanent |-> TRUE]),
                         !.nextId.email = @ + 1]
      db5 == [db4 EXCEPT !.activationCodes[cid] =
                [@ EXCEPT !.status = "used", !.usedByUserId = uid]]
  IN  IF fault = "user" \/ \E u \in DOMAIN db.users : db.users[u].username = username
        THEN Result(db, 500, "exception")
      ELSE IF fault = "role" /\ fr.roles # db1.roles
        THEN Result(db1, 500, "exception")
      ELSE IF fault = "user_role"
        THEN Result(db2, 500, "exception")
      ELSE IF fault = "email" \/ \E e \in DOMAIN db3.emails : db3.emails[e].address = address
        THEN Result(db3, 500, "exception")
      ELSE IF fault = "activation_code"
        THEN Result(db4, 500, "exception")
      ELSE [Result(db5, 200, "ok") EXCEPT !.uid = uid, !.eid = eid, !.cid = cid]

\* the code is marked used before the username is looked up
ActivateCallbackConsumesFirst(db, t, activationCode, username, permanentEmail, fault) ==
  LET found == {c \in DOMAIN db.activationCodes : db.activationCodes[c].code = activationCode}
  IN  IF found = {} THEN Result(db, 400, "code_not_found")
      ELSE
        LET cid == CHOOSE c \in found : TRUE
            codeRecord == db.activationCodes[cid]
        IN  IF codeRecord.status # "unused"
              THEN [Result(db, 400, "code_not_unused") EXCEPT !.cid = cid]
            ELSE IF codeRecord.expiresAt # NoDate /\ t > codeRecord.expiresAt
              THEN IF fault = "activation_code"
                     THEN Result(db, 500, "exception")
                     ELSE [Result([db EXCEPT !.activationCodes[cid].status = "expired"],
                                  400, "code_expired") EXCEPT !.cid = cid]
            ELSE IF \E u \in DOMAIN db.users : db.users[u].username = username
              THEN [Result([db EXCEPT !.activationCodes[cid].status = "used"],
                           400, "username_taken") EXCEPT !.cid = cid]
            ELSE IF \E e \in DOMAIN db.emails :
                      db.emails[e].address = toLowerCase(fullAddress(permanentEmail))
              THEN [Result(db, 400, "email_taken") EXCEPT !.cid = cid]
            ELSE ActivateWrites(db, t, cid, username, permanentEmail, fault)
\* a code without expiry date is compared like any other
ActivateCallbackNullExpires(db, t, activationCode, username, permanentEmail, fault) ==
  LET found == {c \in DOMAIN db.activationCodes : db.activationCodes[c].code = activationCode}
  IN  IF found = {} THEN Result(db, 400, "code_not_found")
      ELSE
        LET cid == CHOOSE c \in found : TRUE
            codeRecord == db.activationCodes[cid]
        IN  IF codeRecord.status # "unused"
              THEN [Result(db, 400, "code_not_unused") EXCEPT !.cid = cid]
            ELSE IF t > codeRecord.expiresAt
              THEN IF fault = "activation_code"
                     THEN Result(db, 500, "exception")
                     ELSE [Result([db EXCEPT !.activationCodes[cid].status = "expired"],
                                  400, "code_expired") EXCEPT !.cid = cid]
            ELSE IF \E u \in DOMAIN db.users : db.users[u].username = username
              THEN [Result(db, 400, "username_taken") EXCEPT !.cid = cid]
            ELSE IF \E e \in DOMAIN db.emails :
                      db.emails[e].address = toLowerCase(fullAddress(permanentEmail))
              THEN [Result(db, 400, "email_taken") EXCEPT !.cid = cid]
            ELSE ActivateWrites(db, t, cid, username, permanentEmail, fault)
\* the transaction callback of POST /api/auth/activate
ActivateCallback(db, t, activationCode, username, permanentEmail, fault) ==
  LET found == {c \in DOMAIN db.activationCodes : db.activationCodes[c].code = activationCode}
  IN  IF found = {} THEN Result(db, 400, "code_not_found")
      ELSE
        LET cid == CHOOSE c \in found : TRUE
            codeRecord == db.activationCodes[cid]
        IN  IF codeRecord.status # "unused"
              THEN [Result(db, 400, "code_not_unused") EXCEPT !.cid = cid]
            ELSE IF codeRecord.expiresAt # NoDate /\ t > codeRecord.expiresAt
              THEN IF fault = "activation_code"
                     THEN Result(db, 500, "exception")
                     ELSE [Result([db EXCEPT !.activationCodes[cid].status = "expired"],
                                  400, "code_expired") EXCEPT !.cid = cid]
            ELSE IF \E u \in DOMAIN db.users : db.users[u].username = username
              THEN [Result(db, 400, "username_taken") EXCEPT !.cid = cid]
            ELSE IF \E e \in DOMAIN db.emails :
                      db.emails[e].address = toLowerCase(fullAddress(permanentEmail))
              THEN [Result(db, 400, "email_taken") EXCEPT !.cid = cid]
            ELSE ActivateWrites(db, t, cid, username, permanentEmail, fault)

\* POST /api/auth/activate; limited is the refusal of checkRateLimit
ActivateResult(db, t, limited, activationCode, username, permanentEmail, fault) ==
  IF limited THEN Result(db, 429, "rate_limited")
  ELSE Transaction(db, ActivateCallback(db, t, activationCode, username, permanentEmail, fault))

(* ------------------------------------------------ activation-code admin *)
\* the batch is inserted whatever strings are stored already
GenerateCodesNoUniqueIndex(db, t, caller, count, expiryDays, generated) ==
  IF ~checkPermission(db, caller, "manage_config") THEN Result(db, 403, "forbidden")
  ELSE IF count < 1 \/ count > 100 THEN Result(db, 400, "schema")
  ELSE
    LET expiresAt == IF expiryDays # Undefined /\ expiryDays > 0
                       THEN t + expiryDays * HoursPerDay
                       ELSE NoDate
        first == db.nextId.code
        rows == [i \in first..(first + count - 1) |->
                   [code |-> generated[i - first + 1], status |-> "unused",
                    expiresAt |-> expiresAt, usedByUserId |-> NULL]]
    IN       Result([db EXCEPT !.activationCodes =
                                   [c \in DOMAIN @ \cup DOMAIN rows |->
                                      IF c \in DOMAIN rows THEN rows[c] ELSE @[c]],
                                 !.nextId.code = @ + count],
                      200, "ok")
\* POST /api/admin/activation-codes: generated is the list of strings the
\* generation loop ends with (pairwise distinct by its do-while)
GenerateCodesResult(db, t, caller, count, expiryDays, generated) ==
  IF ~checkPermission(db, caller, "manage_config") THEN Result(db, 403, "forbidden")
  ELSE IF count < 1 \/ count > 100 THEN Result(db, 400, "schema")
  ELSE
    LET expiresAt == IF expiryDays # Undefined /\ expiryDays > 0
                       THEN t + expiryDays * HoursPerDay
                       ELSE NoDate
        first == db.nextId.code
        rows == [i \in first..(first + count - 1) |->
                   [code |-> generated[i - first + 1], status |-> "unused",
                    expiresAt |-> expiresAt, usedByUserId |-> NULL]]
    IN  IF \E i \in 1..count, c \in DOMAIN db.activationCodes :
             db.activationCodes[c].code = generated[i]
          THEN Result(db, 500, "exception")
          ELSE Result([db EXCEPT !.activationCodes =
                                   [c \in DOMAIN @ \cup DOMAIN rows |->
                                      IF c \in DOMAIN rows THEN rows[c] ELSE @[c]],
                                 !.nextId.code = @ + count],
                      200, "ok")

CodeStatuses == {"unused", "used", "expired", "disabled"}

\* the status is written without the rules for used codes
UpdateCodeStatusNoRule(db, t, caller, id, status) ==
  IF ~checkPermission(db, caller, "manage_config") THEN Result(db, 403, "forbidden")
  ELSE IF status \notin CodeStatuses THEN Result(db, 400, "schema")
  ELSE IF id \notin DOMAIN db.activationCodes THEN Result(db, 404, "not_found")
  ELSE [Result([db EXCEPT !.activationCodes[id].status = status], 200, "ok") EXCEPT !.cid = id]
\* setting a code back to unused also clears who used it
UpdateCodeStatusClearsBinding(db, t, caller, id, status) ==
  IF ~checkPermission(db, caller, "manage_config") THEN Result(db, 403, "forbidden")
  ELSE IF status \notin CodeStatuses THEN Result(db, 400, "schema")
  ELSE IF id \notin DOMAIN db.activationCodes THEN Result(db, 404, "not_found")
  ELSE
    LET existingCode == db.activationCodes[id]
    IN  IF existingCode.status = "used" /\ status # "disabled"
          THEN [Result(db, 400, "used_only_disabled") EXCEPT !.cid = id]
        ELSE IF status = "used" /\ existingCode.usedByUserId = NULL
          THEN [Result(db, 400, "unbound_used") EXCEPT !.cid = id]
        ELSE
          [Result([db EXCEPT !.activationCodes[id] =
                     [@ EXCEPT !.status = status,
                               !.usedByUserId = IF status = "unused" THEN NULL ELSE @]],
                  200, "ok")
             EXCEPT !.cid = id]
\* used is written also on a code that no user is bound to
UpdateCodeStatusUnboundUsed(db, t, caller, id, status) ==
  IF ~checkPermission(db, caller, "manage_config") THEN Result(db, 403, "forbidden")
  ELSE IF status \notin CodeStatuses THEN Result(db, 400, "schema")
  ELSE IF id \notin DOMAIN db.activationCodes THEN Result(db, 404, "not_found")
  ELSE IF db.activationCodes[id].status = "used" /\ status # "disabled"
    THEN [Result(db, 400, "used_only_disabled") EXCEPT !.cid = id]
  ELSE [Result([db EXCEPT !.activationCodes[id].status = status], 200, "ok")
          EXCEPT !.cid = id]
\* PUT /api/admin/activation-codes/[id]
UpdateCodeStatusResult(db, t, caller, id, status) ==
  IF ~checkPermission(db, caller, "manage_config") THEN Result(db, 403, "forbidden")
  ELSE IF status \notin CodeStatuses THEN Result(db, 400, "schema")
  ELSE IF id \notin DOMAIN db.activationCodes THEN Result(db, 404, "not_found")
  ELSE
    LET existingCode == db.activationCodes[id]
    IN  IF existingCode.status = "used" /\ status # "disabled"
          THEN [Result(db, 400, "used_only_disabled") EXCEPT !.cid = id]
        ELSE IF status = "used" /\ existingCode.usedByUserId = NULL
          THEN [Result(db, 400, "unbound_used") EXCEPT !.cid = id]
        ELSE
          [Result([db EXCEPT !.activationCodes[id].status = status], 200, "ok")
             EXCEPT !.cid = id]

\* DELETE /api/admin/activation-codes/[id]
DeleteCodeResult(db, caller, id) ==
  IF ~checkPermission(db, caller, "manage_config") THEN Result(db, 403, "forbidden")
  ELSE IF id \notin DOMAIN db.activationCodes THEN Result(db, 404, "not_found")
  ELSE IF db.activationCodes[id].status = "used"
    THEN [Result(db, 400, "used_not_deletable") EXCEPT !.cid = id]
  ELSE [Result([db EXCEPT !.activationCodes = Drop(@, {id})], 200, "ok") EXCEPT !.cid = id]

(* ------------------------------------------------------------ user admin *)
\* PUT /api/admin/users/[id]
UpdateUserStatusResult(db, caller, id, enabled) ==
  IF ~checkPermission(db, caller, "manage_students") THEN Result(db, 403, "forbidden")
  ELSE IF id \notin DOMAIN db.users THEN Result(db, 404, "not_found")
  ELSE IF "emperor" \in RoleNames(db, id) /\ ~enabled
    THEN [Result(db, 400, "emperor") EXCEPT !.uid = id]
  ELSE [Result([db EXCEPT !.users[id].enabled = enabled], 200, "ok") EXCEPT !.uid = id]

\* PUT /api/admin/students/[id]
UpdateStudentStatusResult(db, caller, id, enabled) ==
  IF ~checkPermission(db, caller, "manage_students") THEN Result(db, 403, "forbidden")
  ELSE IF id \notin DOMAIN db.users THEN Result(db, 404, "not_found")
  ELSE IF "student" \notin RoleNames(db, id)
    THEN [Result(db, 400, "not_student") EXCEPT !.uid = id]
  ELSE [Result([db EXCEPT !.users[id].enabled = enabled], 200, "ok") EXCEPT !.uid = id]

ApiKeysOf(db, userId) == {k \in DOMAIN db.apiKeys : db.apiKeys[k] = userId}

CodesUsedBy(db, userId) ==
  {c \in DOMAIN db.activationCodes : db.activationCodes[c].usedByUserId = userId}

\* the user row is deleted whatever refers to it
DeleteUserRowUnconstrained(db, id) ==
  [ok |-> TRUE, db |-> [db EXCEPT !.users = Drop(@, {id})]]
\* delete from user where id: the foreign keys of the schema act on the rows
\* that refer to the user (email and user_role cascade, activation_codes set
\* null); an api_keys row, whose reference declares no action, makes it fail
DeleteUserRow(db, id) ==
  IF ApiKeysOf(db, id) # {} THEN [ok |-> FALSE, db |-> db]
  ELSE [ok |-> TRUE,
        db |-> [db EXCEPT
                  !.users = Drop(@, {id}),
                  !.emails = Drop(@, EmailsOf(db, id)),
                  !.userRoles = {ur \in @ : ur[1] # id},
                  !.activationCodes =
                     [c \in DOMAIN @ |-> IF @[c].usedByUserId = id
                                           THEN [@[c] EXCEPT !.usedByUserId = NULL]
                                           ELSE @[c]]]]

\* the transaction of steps 1-5: each of steps 1-4 runs when targetUser, the
\* rows read before the transaction, had rows of that kind
DeleteUserTransaction(db, read, id) ==
  LET db1 == IF CodesUsedBy(read, id) # {}
               THEN [db EXCEPT !.activationCodes =
                       [c \in DOMAIN @ |-> IF @[c].usedByUserId = id
                                             THEN [@[c] EXCEPT !.usedByUserId = NULL]
                                             ELSE @[c]]]
               ELSE db
      db2 == IF EmailsOf(read, id) # {}
               THEN [db1 EXCEPT !.emails = Drop(@, EmailsOf(db1, id))]
               ELSE db1
      db3 == IF ApiKeysOf(read, id) # {}
               THEN [db2 EXCEPT !.apiKeys = Drop(@, ApiKeysOf(db2, id))]
               ELSE db2
      db4 == IF \E ur \in read.userRoles : ur[1] = id
               THEN [db3 EXCEPT !.userRoles = {ur \in @ : ur[1] # id}]
               ELSE db3
      db5 == DeleteUserRow(db4, id)
  IN  Transaction(db, IF db5.ok
                        THEN [Result(db5.db, 200, "ok") EXCEPT !.uid = id]
                        ELSE [Result(db5.db, 500, "foreign_key") EXCEPT !.uid = id])

\* the response DELETE gives before its transaction, 0 when it goes on
DeleteUserRefusal(db, caller, id) ==
  IF ~checkPermission(db, caller, "manage_students") THEN 403
  ELSE IF id \notin DOMAIN db.users THEN 404
  ELSE IF "emperor" \in RoleNames(db, id) THEN 400
  ELSE 0

\* the roles of the target are not looked at
DeleteUserAnyRole(db, caller, id) ==
  IF ~checkPermission(db, caller, "manage_students") THEN Result(db, 403, "forbidden")
  ELSE IF id \notin DOMAIN db.users THEN Result(db, 404, "not_found")
  ELSE DeleteUserTransaction(db, db, id)
\* DELETE /api/admin/users/[id]
DeleteUserResult(db, caller, id) ==
  IF ~checkPermission(db, caller, "manage_students") THEN Result(db, 403, "forbidden")
  ELSE IF id \notin DOMAIN db.users THEN Result(db, 404, "not_found")
  ELSE IF "emperor" \in RoleNames(db, id)
    THEN [Result(db, 400, "emperor") EXCEPT !.uid = id]
  ELSE DeleteUserTransaction(db, db, id)

(* ---------------------------------------------- permanent-email promotion *)
\* getUserRole of lib/auth answers one role of the user, civilian when none
getUserRoleOutcomes(db, userId) ==
  IF RoleNames(db, userId) = {} THEN {"civilian"} ELSE RoleNames(db, userId)

\* the caller's existing permanent email is not looked for
SetPermanentNoExistingCheck(db, t, userId, emailId) ==
  IF emailId \notin EmailsOf(db, userId) THEN Result(db, 404, "email_not_found")
  ELSE IF db.emails[emailId].isPermanent
    THEN [Result(db, 400, "already_permanent") EXCEPT !.eid = emailId]
  ELSE IF t > db.emails[emailId].expiresAt
    THEN [Result(db, 400, "email_expired") EXCEPT !.eid = emailId]
  ELSE [Result([db EXCEPT !.emails[emailId] =
                  [@ EXCEPT !.isPermanent = TRUE, !.expiresAt = PermanentExpiry]],
               200, "ok") EXCEPT !.eid = emailId]
\* the target's expiry is not compared with the clock
SetPermanentIgnoresExpiry(db, t, userId, emailId) ==
  IF PermanentEmailsOf(db, userId) # {} THEN Result(db, 400, "has_permanent")
  ELSE IF emailId \notin EmailsOf(db, userId) THEN Result(db, 404, "email_not_found")
  ELSE IF db.emails[emailId].isPermanent
    THEN [Result(db, 400, "already_permanent") EXCEPT !.eid = emailId]
  ELSE [Result([db EXCEPT !.emails[emailId] =
                  [@ EXCEPT !.isPermanent = TRUE, !.expiresAt = PermanentExpiry]],
               200, "ok") EXCEPT !.eid = emailId]
\* the transaction callback of POST (set-permanent)
SetPermanentCallback(db, t, userId, emailId) ==
  IF PermanentEmailsOf(db, userId) # {} THEN Result(db, 400, "has_permanent")
  ELSE IF emailId \notin EmailsOf(db, userId) THEN Result(db, 404, "email_not_found")
  ELSE IF db.emails[emailId].isPermanent
    THEN [Result(db, 400, "already_permanent") EXCEPT !.eid = emailId]
  ELSE IF t > db.emails[emailId].expiresAt
    THEN [Result(db, 400, "email_expired") EXCEPT !.eid = emailId]
  ELSE [Result([db EXCEPT !.emails[emailId] =
                  [@ EXCEPT !.isPermanent = TRUE, !.expiresAt = PermanentExpiry]],
               200, "ok") EXCEPT !.eid = emailId]

\* POST (set-permanent); userRole is the answer of getUserRole
SetPermanentResult(db, t, userId, userRole, emailId) ==
  IF userId \notin DOMAIN db.users THEN Result(db, 401, "unauthorized")
  ELSE IF ~checkPermission(db, userId, "set_permanent_email") THEN Result(db, 403, "forbidden")
  ELSE IF userRole # "student" THEN Result(db, 403, "not_student")
  ELSE Transaction(db, SetPermanentCallback(db, t, userId, emailId))

\* the answer of the available-for-permanent query
Available(status, canSetPermanent, availableEmails) ==
  [status |-> status, canSetPermanent |-> canSetPermanent,
   availableEmails |-> availableEmails]

\* GET (available-for-permanent): no getUserRole check; lists the caller's
\* non-permanent emails with expiresAt strictly after now
AvailableForPermanentResult(db, t, userId) ==
  IF userId \notin DOMAIN db.users THEN Available(401, FALSE, {})
  ELSE IF ~checkPermission(db, userId, "set_permanent_email") THEN Available(403, FALSE, {})
  ELSE IF PermanentEmailsOf(db, userId) # {} THEN Available(200, FALSE, {})
  ELSE Available(200, TRUE,
         {e \in EmailsOf(db, userId) :
            db.emails[e].expiresAt > t /\ ~db.emails[e].isPermanent})

(* ------------------------------------------------------ admin email admin *)
\* a request field that may be omitted: Undefined for numbers, "undefined"
\* for booleans, UndefinedString for strings
UndefinedString == <<"undefined">>

Truthy(b) == b = "true"

\* z.number().min(1).max(8760).optional(), z.boolean().optional()
EmailSchemaOk(isPermanent, expiryHours) ==
  /\ isPermanent \in {"true", "false", "undefined"}
  /\ expiryHours = Undefined \/ (expiryHours >= 1 /\ expiryHours <= 8760)

prefixRegex(s) == \A i \in 1..Len(s) : s[i] \in {"a", "b", "r", "A", "B", "R", "_", "-"}

\* db.insert(emails): the unique index on address rejects a duplicate, and an
\* expiresAt that is not a date (NaN) cannot be stored in the NOT NULL column
InsertEmail(db, t, userId, address, isPermanent, expiresAt) ==
  IF expiresAt = Undefined \/ \E e \in DOMAIN db.emails : db.emails[e].address = address
    THEN Result(db, 500, "exception")
    ELSE [Result([db EXCEPT !.emails = Put(@, db.nextId.email,
                                           [address |-> address, userId |-> userId,
                                            expiresAt |-> expiresAt,
                                            isPermanent |-> isPermanent]),
                            !.nextId.email = @ + 1],
                 200, "ok") EXCEPT !.eid = db.nextId.email, !.uid = userId]

\* now.getTime() + expiryHours * 60 * 60 * 1000; NaN when expiryHours is undefined
ExpiresAtFor(t, isPermanent, expiryHours) ==
  IF Truthy(isPermanent) THEN PermanentExpiry
  ELSE IF expiryHours = Undefined THEN Undefined
  ELSE t + expiryHours

\* POST /api/admin/users/[id]/emails; randomName is the answer of nanoid(8)
AddEmailForUserResult(db, t, caller, userId, isPermanent, customAddress, expiryHours, randomName) ==
  IF ~checkPermission(db, caller, "manage_students") THEN Result(db, 403, "forbidden")
  ELSE IF ~EmailSchemaOk(isPermanent, expiryHours) THEN Result(db, 400, "schema")
  ELSE IF userId \notin DOMAIN db.users THEN Result(db, 404, "not_found")
  ELSE IF ~db.users[userId].enabled THEN [Result(db, 400, "disabled") EXCEPT !.uid = userId]
  ELSE IF Truthy(isPermanent) /\ PermanentEmailsOf(db, userId) # {}
    THEN [Result(db, 400, "has_permanent") EXCEPT !.uid = userId]
  ELSE IF customAddress # UndefinedString /\ customAddress # <<>>
    THEN IF ~prefixRegex(customAddress) THEN Result(db, 400, "prefix_chars")
         ELSE IF Len(customAddress) < 2 \/ Len(customAddress) > 30
           THEN Result(db, 400, "prefix_length")
         ELSE IF \E e \in DOMAIN db.emails :
                   db.emails[e].address = fullAddress(toLowerCase(customAddress))
           THEN Result(db, 400, "email_taken")
         ELSE InsertEmail(db, t, userId, toLowerCase(fullAddress(toLowerCase(customAddress))),
                          Truthy(isPermanent), ExpiresAtFor(t, isPermanent, expiryHours))
  ELSE InsertEmail(db, t, userId, toLowerCase(fullAddress(randomName)),
                   Truthy(isPermanent), ExpiresAtFor(t, isPermanent, expiryHours))

\* POST /api/admin/students/[id]/emails
AddEmailForStudentResult(db, t, caller, studentId, isPermanent, customAddress, expiryHours, randomName) ==
  IF ~checkPermission(db, caller, "manage_students") THEN Result(db, 403, "forbidden")
  ELSE IF ~EmailSchemaOk(isPermanent, expiryHours) THEN Result(db, 400, "schema")
  ELSE IF studentId \notin DOMAIN db.users THEN Result(db, 404, "not_found")
  ELSE IF "student" \notin RoleNames(db, studentId)
    THEN [Result(db, 400, "not_student") EXCEPT !.uid = studentId]
  ELSE IF ~db.users[studentId].enabled
    THEN [Result(db, 400, "disabled") EXCEPT !.uid = studentId]
  ELSE IF Truthy(isPermanent) /\ PermanentEmailsOf(db, studentId) # {}
    THEN [Result(db, 400, "has_permanent") EXCEPT !.uid = studentId]
  ELSE IF customAddress # UndefinedString /\ customAddress # <<>>
    THEN IF \E e \in DOMAIN db.emails :
                   db.emails[e].address = toLowerCase(fullAddress(customAddress))
           THEN Result(db, 400, "email_taken")
         ELSE InsertEmail(db, t, studentId, toLowerCase(fullAddress(customAddress)),
                          Truthy(isPermanent), ExpiresAtFor(t, isPermanent, expiryHours))
  ELSE InsertEmail(db, t, studentId, toLowerCase(fullAddress(randomName)),
                   Truthy(isPermanent), ExpiresAtFor(t, isPermanent, expiryHours))

\* PUT /api/admin/users/[id]/emails/[emailId]: the updateData object, field by
\* field, as [set |-> whether the key is present, value |-> its value]
UpdateDataIsPermanent(isPermanent) ==
  [set |-> isPermanent # "undefined", value |-> Truthy(isPermanent)]

UpdateDataExpiresAt(t, targetIsPermanent, isPermanent, expiryHours) ==
  IF expiryHours # Undefined /\ ~Truthy(isPermanent)
    THEN [set |-> TRUE, value |-> t + expiryHours]
  ELSE IF Truthy(isPermanent)
    THEN [set |-> TRUE, value |-> PermanentExpiry]
  ELSE [set |-> FALSE, value |-> Undefined]

\* the owner's enabled flag is not looked at
UpdateEmailIgnoresEnabled(db, t, caller, userId, emailId, isPermanent, expiryHours, customAddress) ==
  IF ~checkPermission(db, caller, "manage_students") THEN Result(db, 403, "forbidden")
  ELSE IF ~EmailSchemaOk(isPermanent, expiryHours) THEN Result(db, 400, "schema")
  ELSE IF emailId \notin EmailsOf(db, userId) THEN Result(db, 404, "not_found")
  ELSE
    LET targetEmail == db.emails[emailId]
        newAddress == toLowerCase(fullAddress(customAddress))
        dIsPermanent == UpdateDataIsPermanent(isPermanent)
        dExpiresAt == UpdateDataExpiresAt(t, targetEmail.isPermanent, isPermanent, expiryHours)
        updated == [targetEmail EXCEPT
                      !.isPermanent = IF dIsPermanent.set THEN dIsPermanent.value ELSE @,
                      !.expiresAt = IF dExpiresAt.set THEN dExpiresAt.value ELSE @,
                      !.address = IF customAddress # UndefinedString THEN newAddress ELSE @]
    IN  IF /\ Truthy(isPermanent)
           /\ ~targetEmail.isPermanent
           /\ PermanentEmailsOf(db, userId) \ {emailId} # {}
          THEN [Result(db, 400, "has_permanent") EXCEPT !.eid = emailId]
        ELSE IF /\ customAddress # UndefinedString
                /\ \E e \in DOMAIN db.emails \ {emailId} : db.emails[e].address = newAddress
          THEN [Result(db, 400, "email_taken") EXCEPT !.eid = emailId]
        ELSE IF ~dIsPermanent.set /\ ~dExpiresAt.set /\ customAddress = UndefinedString
          THEN [Result(db, 500, "exception") EXCEPT !.eid = emailId]
        ELSE [Result([db EXCEPT !.emails[emailId] = updated], 200, "ok")
                EXCEPT !.eid = emailId, !.uid = userId]
\* PUT /api/admin/users/[id]/emails/[emailId]
UpdateEmailResult(db, t, caller, userId, emailId, isPermanent, expiryHours, customAddress) ==
  IF ~checkPermission(db, caller, "manage_students") THEN Result(db, 403, "forbidden")
  ELSE IF ~EmailSchemaOk(isPermanent, expiryHours) THEN Result(db, 400, "schema")
  ELSE IF emailId \notin EmailsOf(db, userId) THEN Result(db, 404, "not_found")
  ELSE IF userId \notin DOMAIN db.users \/ ~db.users[userId].enabled
    THEN [Result(db, 400, "disabled") EXCEPT !.eid = emailId]
  ELSE
    LET targetEmail == db.emails[emailId]
        newAddress == toLowerCase(fullAddress(customAddress))
        dIsPermanent == UpdateDataIsPermanent(isPermanent)
        dExpiresAt == UpdateDataExpiresAt(t, targetEmail.isPermanent, isPermanent, expiryHours)
        updated == [targetEmail EXCEPT
                      !.isPermanent = IF dIsPermanent.set THEN dIsPermanent.value ELSE @,
                      !.expiresAt = IF dExpiresAt.set THEN dExpiresAt.value ELSE @,
                      !.address = IF customAddress # UndefinedString THEN newAddress ELSE @]
    IN  IF /\ Truthy(isPermanent)
           /\ ~targetEmail.isPermanent
           /\ PermanentEmailsOf(db, userId) \ {emailId} # {}
          THEN [Result(db, 400, "has_permanent") EXCEPT !.eid = emailId]
        ELSE IF /\ customAddress # UndefinedString
                /\ \E e \in DOMAIN db.emails \ {emailId} : db.emails[e].address = newAddress
          THEN [Result(db, 400, "email_taken") EXCEPT !.eid = emailId]
        ELSE IF ~dIsPermanent.set /\ ~dExpiresAt.set /\ customAddress = UndefinedString
          THEN [Result(db, 500, "exception") EXCEPT !.eid = emailId]
        ELSE [Result([db EXCEPT !.emails[emailId] = updated], 200, "ok")
                EXCEPT !.eid = emailId, !.uid = userId]

\* DELETE /api/admin/users/[id]/emails/[emailId]
DeleteEmailResult(db, caller, userId, emailId) ==
  IF ~checkPermission(db, caller, "manage_students") THEN Result(db, 403, "forbidden")
  ELSE IF emailId \notin EmailsOf(db, userId) THEN Result(db, 404, "not_found")
  ELSE [Result([db EXCEPT !.emails = Drop(@, {emailId})], 200, "ok") EXCEPT !.eid = emailId]

(* --------------------------------------------------------------- actions *)
SetDB(db) ==
  /\ users' = db.users
  /\ roles' = db.roles
  /\ userRoles' = db.userRoles
  /\ emails' = db.emails
  /\ activationCodes' = db.activationCodes
  /\ apiKeys' = db.apiKeys
  /\ nextId' = db.nextId

\* lastWrite is the most recent request that changed the database and the
\* status it answered; a request that changes nothing is a stuttering step
Do(op, r) ==
  /\ SetDB(r.db)
  /\ lastWrite' = IF r.db = DB THEN lastWrite ELSE [op |-> op, status |-> r.status]
  /\ redeemed' = IF op = "activate" /\ r.status = 200
                   THEN [redeemed EXCEPT ![r.cid] = @ + 1]
                   ELSE redeemed
  /\ r.db.nextId.user <= MaxUsers + 1
  /\ r.db.nextId.email <= MaxEmails + 1
  /\ r.db.nextId.code <= MaxCodes + 1
  /\ UNCHANGED <<now, others>>

\* request values
Callers == DOMAIN users \cup {NULL}
IsPermanentValues == {"true", "false", "undefined"}
ExpiryHoursValues == {Undefined, 0, 24}
ExpiryDaysValues == {Undefined, 0, 1}
RandomNames == {<<"R">>}
StatusValues == CodeStatuses \cup {"bogus"}
\* the generator draws strings that are not stored yet
FreshCodes(count) == [i \in 1..count |-> <<"K", nextId.code + i - 1>>]

Activate(limited, activationCode, username, permanentEmail, fault) ==
  Do("activate",
     ActivateResult(DB, now, limited, activationCode, username, permanentEmail, fault))

SetPermanent(userId, userRole, emailId) ==
  Do("setPermanent", SetPermanentResult(DB, now, userId, userRole, emailId))

AddEmailForUser(caller, userId, isPermanent, customAddress, expiryHours, randomName) ==
  Do("addEmailForUser",
     AddEmailForUserResult(DB, now, caller, userId, isPermanent, customAddress,
                           expiryHours, randomName))

AddEmailForStudent(caller, studentId, isPermanent, customAddress, expiryHours, randomName) ==
  Do("addEmailForStudent",
     AddEmailForStudentResult(DB, now, caller, studentId, isPermanent, customAddress,
                              expiryHours, randomName))

UpdateEmail(caller, userId, emailId, isPermanent, expiryHours, customAddress) ==
  Do("updateEmail",
     UpdateEmailResult(DB, now, caller, userId, emailId, isPermanent, expiryHours, customAddress))

DeleteEmail(caller, userId, emailId) ==
  Do("deleteEmail", DeleteEmailResult(DB, caller, userId, emailId))

GenerateCodes(caller, count, expiryDays, generated) ==
  Do("generateCodes", GenerateCodesResult(DB, now, caller, count, expiryDays, generated))

UpdateCodeStatus(caller, id, status) ==
  Do("updateCodeStatus", UpdateCodeStatusResult(DB, now, caller, id, status))

DeleteUser(caller, id) ==
  Do("deleteUser", DeleteUserResult(DB, caller, id))

\* the clock: a day passes
Tick ==
  /\ now + HoursPerDay <= MaxTicks * HoursPerDay
  /\ now' = now + HoursPerDay
  /\ UNCHANGED <<users, roles, userRoles, emails, activationCodes, nextId, redeemed, lastWrite,
                 apiKeys, others>>

\* the site owner exists; no code has been generated yet
Init ==
  /\ users = (1 :> [username |-> "admin", enabled |-> TRUE])
  /\ roles = <<"emperor">>
  /\ userRoles = {<<1, 1>>}
  /\ emails = <<>>
  /\ activationCodes = <<>>
  /\ nextId = [user |-> 2, email |-> 1, code |-> 1, apiKey |-> 1]
  /\ now = 0
  /\ redeemed = [c \in CodeIds |-> 0]
  /\ lastWrite = [op |-> "none", status |-> 0]
  /\ apiKeys = <<>>
  /\ webhooks = <<>>
  /\ rateLimitMap = <<>>
  /\ admitted = <<>>
  /\ clock = 0
  /\ inflight = <<>>
  /\ asked = <<>>
  /\ listed = <<>>

\* redemption, code generation, the admin status update and user deletion
Next ==
  \/ Tick
  \/ \E l \in BOOLEAN, c \in CodeStrings \cup {UnknownCode}, n \in Usernames,
        p \in LocalParts, f \in Faults :
       Activate(l, c, n, p, f)
  \/ \E c \in Callers, n \in 0..MaxCodes, d \in ExpiryDaysValues :
       GenerateCodes(c, n, d, FreshCodes(n))
  \/ \E c \in Callers, id \in CodeIds, s \in StatusValues : UpdateCodeStatus(c, id, s)
  \/ \E c \in Callers, id \in UserIds : DeleteUser(c, id)

Spec == Init /\ [][Next]_vars

\* redemption, promotion, the admin email endpoints, email and user deletion;
\* the codes come from one generation request of never-expiring codes, and
\* the admin requests are issued by the site owner
Owner == CHOOSE u \in DOMAIN users : "emperor" \in RoleNames(DB, u)
EmailCustomAddresses == {UndefinedString, <<"a", "b">>}

NextEmails ==
  \/ Tick
  \/ GenerateCodes(Owner, MaxCodes, Undefined, FreshCodes(MaxCodes))
  \/ \E c \in CodeStrings, n \in Usernames, p \in LocalParts : Activate(FALSE, c, n, p, "none")
  \/ \E u \in Callers, e \in EmailIds :
       \E r \in getUserRoleOutcomes(DB, u) : SetPermanent(u, r, e)
  \/ \E u \in UserIds, ip \in IsPermanentValues, ca \in EmailCustomAddresses,
        h \in ExpiryHoursValues, rn \in RandomNames :
       AddEmailForUser(Owner, u, ip, ca, h, rn)
  \/ \E u \in UserIds, ip \in IsPermanentValues, ca \in EmailCustomAddresses,
        h \in ExpiryHoursValues, rn \in RandomNames :
       AddEmailForStudent(Owner, u, ip, ca, h, rn)
  \/ \E u \in UserIds, e \in EmailIds, ip \in IsPermanentValues,
        h \in ExpiryHoursValues, ca \in EmailCustomAddresses :
       UpdateEmail(Owner, u, e, ip, h, ca)
  \/ \E u \in UserIds, e \in EmailIds : DeleteEmail(Owner, u, e)
  \/ \E id \in UserIds : DeleteUser(Owner, id)

SpecEmails == Init /\ [][NextEmails]_vars

(* ------------------------------------------- requests that interleave *)
\* a handler awaits each query, so other requests run between its reads and
\* its write; inflight holds the requests that have read and not yet written:
\* the database as they read it, their clock reading and their inputs
Slots == 1..MaxInflight

\* the address POST users/[id]/emails inserts
AddEmailAddress(customAddress, randomName) ==
  IF customAddress # UndefinedString /\ customAddress # <<>>
    THEN toLowerCase(fullAddress(toLowerCase(customAddress)))
    ELSE toLowerCase(fullAddress(randomName))

\* POST users/[id]/emails whose checks ran on snap and whose insert runs on db;
\* the insert also fails when the user row is gone (email.userId references it)
AddEmailForUserInterleaved(db, snap, t, caller, userId, isPermanent, customAddress, expiryHours, randomName) ==
  LET checked == AddEmailForUserResult(snap, t, caller, userId, isPermanent, customAddress,
                                       expiryHours, randomName)
  IN  IF checked.status \in {400, 403, 404} THEN Result(db, checked.status, checked.err)
      ELSE IF userId \notin DOMAIN db.users THEN Result(db, 500, "exception")
      ELSE InsertEmail(db, t, userId, AddEmailAddress(customAddress, randomName),
                       Truthy(isPermanent), ExpiresAtFor(t, isPermanent, expiryHours))

\* PUT users/[id]/emails/[emailId] whose checks ran on snap and whose update
\* runs on db: no row is returned when the email is gone, and reading the
\* id of the missing row throws
UpdateEmailInterleaved(db, snap, t, caller, userId, emailId, isPermanent, expiryHours, customAddress) ==
  LET checked == UpdateEmailResult(snap, t, caller, userId, emailId, isPermanent, expiryHours,
                                   customAddress)
      newAddress == toLowerCase(fullAddress(customAddress))
      dIsPermanent == UpdateDataIsPermanent(isPermanent)
      dExpiresAt == UpdateDataExpiresAt(t, FALSE, isPermanent, expiryHours)
  IN  IF checked.status # 200 THEN Result(db, checked.status, checked.err)
      ELSE IF emailId \notin DOMAIN db.emails THEN Result(db, 500, "exception")
      ELSE IF /\ customAddress # UndefinedString
              /\ \E e \in DOMAIN db.emails \ {emailId} : db.emails[e].address = newAddress
        THEN Result(db, 500, "exception")
      ELSE [Result([db EXCEPT !.emails[emailId] =
                      [@ EXCEPT
                         !.isPermanent = IF dIsPermanent.set THEN dIsPermanent.value ELSE @,
                         !.expiresAt = IF dExpiresAt.set THEN dExpiresAt.value ELSE @,
                         !.address = IF customAddress # UndefinedString THEN newAddress ELSE @]],
                   200, "ok") EXCEPT !.eid = emailId, !.uid = userId]

\* a request has read: it waits in its slot; each slot carries one request
Begin(slot, op, args) ==
  /\ slot \notin DOMAIN inflight
  /\ inflight' = Put(inflight, slot, [op |-> op, snap |-> DB, t |-> now, args |-> args])
  /\ UNCHANGED <<users, roles, userRoles, emails, activationCodes, nextId, now, redeemed,
                 lastWrite, apiKeys, webhooks, rateLimitMap, admitted, clock, asked, listed>>

\* a waiting request writes and answers
Finish(slot, op, r) ==
  /\ SetDB(r.db)
  /\ lastWrite' = IF r.db = DB THEN lastWrite ELSE [op |-> op, status |-> r.status]
  /\ redeemed' = IF op = "activate" /\ r.status = 200
                   THEN [redeemed EXCEPT ![r.cid] = @ + 1]
                   ELSE redeemed
  /\ inflight' = [inflight EXCEPT ![slot] = [op |-> "done", status |-> r.status]]
  /\ r.db.nextId.user <= MaxUsers + 1
  /\ r.db.nextId.email <= MaxEmails + 1
  /\ r.db.nextId.code <= MaxCodes + 1
  /\ UNCHANGED <<now, webhooks, rateLimitMap, admitted, clock, asked, listed>>

Waiting(slot, op) == slot \in DOMAIN inflight /\ inflight[slot].op = op

BeginAddEmailForUser(slot, caller, userId, isPermanent, customAddress, expiryHours, randomName) ==
  Begin(slot, "addEmailForUser",
        [caller |-> caller, userId |-> userId, isPermanent |-> isPermanent,
         customAddress |-> customAddress, expiryHours |-> expiryHours,
         randomName |-> randomName])

FinishAddEmailForUser(slot) ==
  /\ Waiting(slot, "addEmailForUser")
  /\ LET q == inflight[slot]
     IN  Finish(slot, "addEmailForUser",
                AddEmailForUserInterleaved(DB, q.snap, q.t, q.args.caller, q.args.userId,
                                           q.args.isPermanent, q.args.customAddress,
                                           q.args.expiryHours, q.args.randomName))

BeginUpdateEmail(slot, caller, userId, emailId, isPermanent, expiryHours, customAddress) ==
  Begin(slot, "updateEmail",
        [caller |-> caller, userId |-> userId, emailId |-> emailId,
         isPermanent |-> isPermanent, expiryHours |-> expiryHours,
         customAddress |-> customAddress])

FinishUpdateEmail(slot) ==
  /\ Waiting(slot, "updateEmail")
  /\ LET q == inflight[slot]
     IN  Finish(slot, "updateEmail",
                UpdateEmailInterleaved(DB, q.snap, q.t, q.args.caller, q.args.userId,
                                       q.args.emailId, q.args.isPermanent,
                                       q.args.expiryHours, q.args.customAddress))

\* the database of Init, and the database after the owner generated a code, a
\* student redeemed it, and the owner made the student's email temporary again
InitialDB ==
  [users |-> (1 :> [username |-> "admin", enabled |-> TRUE]), roles |-> <<"emperor">>,
   userRoles |-> {<<1, 1>>}, emails |-> <<>>, activationCodes |-> <<>>, apiKeys |-> <<>>,
   nextId |-> [user |-> 2, email |-> 1, code |-> 1, apiKey |-> 1]]

StudentDB ==
  LET db1 == GenerateCodesResult(InitialDB, 0, 1, 1, Undefined, <<<<"K", 1>>>>).db
      db2 == ActivateResult(db1, 0, FALSE, <<"K", 1>>, "u1", <<"a", "b">>, "none").db
  IN  UpdateEmailResult(db2, 0, 1, 2, 1, "false", Undefined, UndefinedString).db

\* the state in which the requests so far, run one at a time, left db
InitFrom(db) ==
  /\ users = db.users
  /\ roles = db.roles
  /\ userRoles = db.userRoles
  /\ emails = db.emails
  /\ activationCodes = db.activationCodes
  /\ apiKeys = db.apiKeys
  /\ nextId = db.nextId
  /\ now = 0
  /\ redeemed = [c \in CodeIds |->
                   IF c \in DOMAIN db.activationCodes /\ db.activationCodes[c].status = "used"
                     THEN 1 ELSE 0]
  /\ lastWrite = [op |-> "none", status |-> 0]
  /\ webhooks = <<>>
  /\ rateLimitMap = <<>>
  /\ admitted = <<>>
  /\ clock = 0
  /\ inflight = <<>>
  /\ asked = <<>>
  /\ listed = <<>>

\* admin add-email and update-email requests that interleave with each other
\* and with promotions, which run inside a transaction
NextEmailRace ==
  \/ \E u \in DOMAIN users, e \in EmailIds : SetPermanent(u, "student", e)
  \/ \E s \in Slots, u \in UserIds, ip \in {"true", "false"}, ca \in EmailCustomAddresses :
       BeginAddEmailForUser(s, Owner, u, ip, ca, 24, <<"R">>)
  \/ \E s \in Slots : FinishAddEmailForUser(s)
  \/ \E s \in Slots, u \in UserIds, e \in EmailIds, ip \in {"true", "false"} :
       BeginUpdateEmail(s, Owner, u, e, ip, Undefined, UndefinedString)
  \/ \E s \in Slots : FinishUpdateEmail(s)

SpecEmailRace == (InitFrom(InitialDB) \/ InitFrom(StudentDB)) /\ [][NextEmailRace]_vars

(* ------------------------------------------- user deletion, interleaved *)
\* an API key is created for a user
CreateApiKey(userId) ==
  /\ userId \in DOMAIN users
  /\ nextId.apiKey <= MaxApiKeys
  /\ apiKeys' = Put(apiKeys, nextId.apiKey, userId)
  /\ nextId' = [nextId EXCEPT !.apiKey = @ + 1]
  /\ UNCHANGED <<users, roles, userRoles, emails, activationCodes, now, redeemed,
                 lastWrite, webhooks, rateLimitMap, admitted, clock, inflight, asked, listed>>

\* the rows of the user that the database holds and the read did not see
LateRows(db, read, id) ==
  (EmailsOf(db, id) \ EmailsOf(read, id)) # {} \/ (ApiKeysOf(db, id) \ ApiKeysOf(read, id)) # {}

\* DELETE up to the read of targetUser
BeginDeleteUser(slot, caller, id) ==
  /\ slot \notin DOMAIN inflight
  /\ LET refusal == DeleteUserRefusal(DB, caller, id)
     IN  inflight' =
           Put(inflight, slot,
               IF refusal # 0
                 THEN [op |-> "done", status |-> refusal, id |-> id, late |-> FALSE]
                 ELSE [op |-> "deleteUser", snap |-> DB, t |-> now,
                       args |-> [caller |-> caller, id |-> id]])
  /\ UNCHANGED <<users, roles, userRoles, emails, activationCodes, nextId, now, redeemed,
                 lastWrite, apiKeys, webhooks, rateLimitMap, admitted, clock, asked, listed>>

\* DELETE from its transaction on
FinishDeleteUser(slot) ==
  /\ Waiting(slot, "deleteUser")
  /\ LET id == inflight[slot].args.id
         r == DeleteUserTransaction(DB, inflight[slot].snap, id)
     IN  /\ SetDB(r.db)
         /\ lastWrite' = IF r.db # DB THEN [op |-> "deleteUser", status |-> r.status]
                         ELSE lastWrite
         /\ inflight' = [inflight EXCEPT ![slot] =
                           [op |-> "done", status |-> r.status, id |-> id,
                            late |-> LateRows(DB, inflight[slot].snap, id)]]
  /\ UNCHANGED <<now, redeemed, webhooks, rateLimitMap, admitted, clock, asked, listed>>

NextDeleteRace ==
  \/ \E s \in Slots, c \in Callers, id \in UserIds : BeginDeleteUser(s, c, id)
  \/ \E s \in Slots : FinishDeleteUser(s)
  \/ \E u \in UserIds : CreateApiKey(u)
  \/ \E u \in UserIds, ca \in EmailCustomAddresses :
       AddEmailForUser(Owner, u, "false", ca, 24, <<"R">>)
  \/ \E u \in UserIds, e \in EmailIds : DeleteEmail(Owner, u, e)

SpecDeleteRace == InitFrom(StudentDB) /\ [][NextDeleteRace]_vars

(* ------------------------------------------------------ webhook settings *)
\* POST of the webhook route: the row of the caller is looked up with one
\* awaited query and updated or inserted with the next one
WebhookUrls == {"https://a", "https://b", "nourl"}

\* webhookSchema: z.string().url()
webhookSchemaOk(url) == url # "nourl"

WebhooksOf(rows, userId) == {w \in DOMAIN rows : rows[w].userId = userId}

\* the response the handler gives before it reads the table, 0 when it goes on
SaveWebhookRefusal(db, caller, url) ==
  IF caller \notin DOMAIN db.users THEN 401
  ELSE IF ~checkPermission(db, caller, "manage_webhook") THEN 403
  ELSE IF ~webhookSchemaOk(url) THEN 400
  ELSE 0

\* the rows after the write of a request that found a row (existing) or none
SaveWebhookWrite(rows, existing, caller, url, enabled) ==
  IF existing
    THEN [w \in DOMAIN rows |->
            IF rows[w].userId = caller
              THEN [rows[w] EXCEPT !.url = url, !.enabled = enabled]
              ELSE rows[w]]
    ELSE Put(rows, Cardinality(DOMAIN rows) + 1,
             [userId |-> caller, url |-> url, enabled |-> enabled])

BeginSaveWebhook(slot, caller, url, enabled) ==
  /\ slot \notin DOMAIN inflight
  /\ LET refusal == SaveWebhookRefusal(DB, caller, url)
     IN  inflight' =
           Put(inflight, slot,
               IF refusal # 0
                 THEN [op |-> "done", status |-> refusal]
                 ELSE [op |-> "saveWebhook", snap |-> DB, t |-> now,
                       args |-> [caller |-> caller, url |-> url, enabled |-> enabled,
                                 existing |-> WebhooksOf(webhooks, caller) # {}]])
  /\ UNCHANGED <<users, roles, userRoles, emails, activationCodes, nextId, now, redeemed,
                 lastWrite, apiKeys, webhooks, rateLimitMap, admitted, clock, asked, listed>>

FinishSaveWebhook(slot) ==
  /\ Waiting(slot, "saveWebhook")
  /\ LET a == inflight[slot].args
     IN  /\ webhooks' = SaveWebhookWrite(webhooks, a.existing, a.caller, a.url, a.enabled)
         /\ inflight' = [inflight EXCEPT ![slot] = [op |-> "done", status |-> 200]]
  /\ UNCHANGED <<users, roles, userRoles, emails, activationCodes, nextId, now, redeemed,
                 lastWrite, apiKeys, rateLimitMap, admitted, clock, asked, listed>>

NextWebhookRace ==
  \/ \E s \in Slots, c \in Callers, url \in WebhookUrls, en \in BOOLEAN :
       BeginSaveWebhook(s, c, url, en)
  \/ \E s \in Slots : FinishSaveWebhook(s)

SpecWebhookRace == (InitFrom(InitialDB) \/ InitFrom(StudentDB)) /\ [][NextWebhookRace]_vars

(* --------------------------------------- code requests that interleave *)
\* the rows the transaction of a request reads are the rows of the database
\* when the request began
TransactionSeesSnapshot(db, snap) == snap
\* the rows the transaction of a request reads: the database at the time the
\* transaction runs, whatever the request saw when it began
TransactionSees(db, snap) == db

\* POST /api/auth/activate of a request that passed the rate limit and the
\* schema while the database was snap and whose transaction runs on db
ActivateInterleaved(db, snap, t, activationCode, username, permanentEmail) ==
  ActivateResult(TransactionSees(db, snap), t, FALSE, activationCode, username,
                 permanentEmail, "none")

\* PUT /api/admin/activation-codes/[id] whose findFirst and rule checks ran
\* on snap and whose update runs on db: no row is returned when the code is
\* gone, and reading the id of the missing row throws
UpdateCodeStatusInterleaved(db, snap, t, caller, id, status) ==
  LET checked == UpdateCodeStatusResult(snap, t, caller, id, status)
  IN  IF checked.status # 200 THEN Result(db, checked.status, checked.err)
      ELSE IF id \notin DOMAIN db.activationCodes THEN Result(db, 500, "exception")
      ELSE [Result([db EXCEPT !.activationCodes[id].status = status], 200, "ok")
              EXCEPT !.cid = id]

\* the site owner generated one code that never expires
CodeDB == GenerateCodesResult(InitialDB, 0, 1, 1, Undefined, <<<<"K", 1>>>>).db

\* the code strings presented: the generated one and one that was never stored
RateLimitCodes == {<<"K", 1>>, UnknownCode}

BeginActivate(slot, activationCode, username, permanentEmail) ==
  Begin(slot, "activate",
        [activationCode |-> activationCode, username |-> username,
         permanentEmail |-> permanentEmail])

CommitActivate(slot) ==
  /\ Waiting(slot, "activate")
  /\ LET q == inflight[slot]
     IN  Finish(slot, "activate",
                ActivateInterleaved(DB, q.snap, now, q.args.activationCode, q.args.username,
                                    q.args.permanentEmail))

BeginUpdateCodeStatus(slot, caller, id, status) ==
  Begin(slot, "updateCodeStatus", [caller |-> caller, id |-> id, status |-> status])

FinishUpdateCodeStatus(slot) ==
  /\ Waiting(slot, "updateCodeStatus")
  /\ LET q == inflight[slot]
     IN  Finish(slot, "updateCodeStatus",
                UpdateCodeStatusInterleaved(DB, q.snap, q.t, q.args.caller, q.args.id,
                                            q.args.status))

\* admin status updates interleaved with redemptions
NextCodeRace ==
  \/ \E s \in Slots, c \in RateLimitCodes, n \in Usernames, p \in LocalParts :
       BeginActivate(s, c, n, p)
  \/ \E s \in Slots : CommitActivate(s)
  \/ \E s \in Slots, id \in CodeIds, st \in StatusValues :
       BeginUpdateCodeStatus(s, Owner, id, st)
  \/ \E s \in Slots : FinishUpdateCodeStatus(s)

SpecCodeRace == InitFrom(CodeDB) /\ [][NextCodeRace]_vars

\* redemptions that are in flight together
NextRedeemRace ==
  \/ Tick
  \/ \E s \in Slots, c \in {r.code : r \in Range(CodeDB.activationCodes)},
        n \in Usernames, p \in LocalParts :
       BeginActivate(s, c, n, p)
  \/ \E s \in Slots : CommitActivate(s)

SpecRedeemRace == InitFrom(CodeDB) /\ [][NextRedeemRace]_vars

(* ------------------------------------------- emails of disabled users *)
UpdateUserStatus(caller, id, enabled) ==
  Do("updateUserStatus", UpdateUserStatusResult(DB, caller, id, enabled))

UpdateStudentStatus(caller, id, enabled) ==
  Do("updateStudentStatus", UpdateStudentStatusResult(DB, caller, id, enabled))

\* the site owner disables and enables users and adds and updates emails
NextDisabled ==
  \/ \E id \in UserIds, en \in BOOLEAN : UpdateUserStatus(Owner, id, en)
  \/ \E id \in UserIds, en \in BOOLEAN : UpdateStudentStatus(Owner, id, en)
  \/ \E u \in UserIds, ip \in IsPermanentValues, ca \in EmailCustomAddresses,
        h \in ExpiryHoursValues, rn \in RandomNames :
       AddEmailForUser(Owner, u, ip, ca, h, rn)
  \/ \E u \in UserIds, ip \in IsPermanentValues, ca \in EmailCustomAddresses,
        h \in ExpiryHoursValues, rn \in RandomNames :
       AddEmailForStudent(Owner, u, ip, ca, h, rn)
  \/ \E u \in UserIds, e \in EmailIds, ip \in IsPermanentValues,
        h \in ExpiryHoursValues, ca \in EmailCustomAddresses :
       UpdateEmail(Owner, u, e, ip, h, ca)

SpecDisabled == InitFrom(StudentDB) /\ [][NextDisabled]_vars

(* ------------------------------------------------------ role assignments *)
\* a role is assigned to a user: the role row is found or created and the
\* assignment added to the ones the user holds
AssignRole(userId, roleName) ==
  /\ userId \in DOMAIN users
  /\ LET role == findOrCreateRole(roles, roleName)
     IN  /\ roles' = role.roles
         /\ userRoles' = assignRoleToUser([DB EXCEPT !.roles = role.roles], userId, role.id).userRoles
  /\ UNCHANGED <<users, emails, activationCodes, nextId, now, redeemed, lastWrite, apiKeys,
                 webhooks, rateLimitMap, admitted, clock, inflight, asked, listed>>

\* role assignments, status updates through both endpoints and user deletions
NextRoles ==
  \/ \E u \in UserIds, r \in ROLES : AssignRole(u, r)
  \/ \E c \in Callers, id \in UserIds, en \in BOOLEAN : UpdateUserStatus(c, id, en)
  \/ \E c \in Callers, id \in UserIds, en \in BOOLEAN : UpdateStudentStatus(c, id, en)
  \/ \E c \in Callers, id \in UserIds : DeleteUser(c, id)

SpecRoles == InitFrom(StudentDB) /\ [][NextRoles]_vars

(* ------------------------------------------------ activation rate limit *)
\* rateLimitMap is the in-memory table of the activation route, keyed by the
\* client IP; clock is Date.now() in minutes; admitted is the history of the
\* admissions: per key, when the current window was opened by an admitted
\* request that came first or more than the window length after the opening
\* of the window before, and how many requests were admitted since
ClientIPs == {"1.1.1.1", "unknown"}
ClockSteps == {5, 15}

\* the sixth request of a window is still let in
checkRateLimitOffByOne(map, ip, t) ==
  IF ip \notin DOMAIN map \/ t > map[ip].resetTime
    THEN [allowed |-> TRUE,
          map |-> Put(map, ip, [count |-> 1, resetTime |-> t + RATE_LIMIT_WINDOW])]
  ELSE IF map[ip].count > RATE_LIMIT_MAX_ATTEMPTS THEN [allowed |-> FALSE, map |-> map]
  ELSE [allowed |-> TRUE, map |-> [map EXCEPT ![ip].count = @ + 1]]
\* checkRateLimit: whether the request is let in, and the table afterwards
checkRateLimit(map, ip, t) ==
  IF ip \notin DOMAIN map \/ t > map[ip].resetTime
    THEN [allowed |-> TRUE,
          map |-> Put(map, ip, [count |-> 1, resetTime |-> t + RATE_LIMIT_WINDOW])]
  ELSE IF map[ip].count >= RATE_LIMIT_MAX_ATTEMPTS THEN [allowed |-> FALSE, map |-> map]
  ELSE [allowed |-> TRUE, map |-> [map EXCEPT ![ip].count = @ + 1]]

Admit(hist, ip, t) ==
  IF ip \notin DOMAIN hist \/ t > hist[ip].opened + RATE_LIMIT_WINDOW
    THEN Put(hist, ip, [opened |-> t, count |-> 1])
    ELSE [hist EXCEPT ![ip].count = @ + 1]

\* POST /api/auth/activate from a client address
ActivateFrom(ip, activationCode, username, permanentEmail) ==
  LET limit == checkRateLimit(rateLimitMap, ip, clock)
      r == ActivateResult(DB, now, ~limit.allowed, activationCode, username,
                          permanentEmail, "none")
  IN  /\ rateLimitMap' = limit.map
      /\ admitted' = IF limit.allowed THEN Admit(admitted, ip, clock) ELSE admitted
      /\ SetDB(r.db)
      /\ lastWrite' = IF r.db # DB THEN [op |-> "activate", status |-> r.status] ELSE lastWrite
      /\ redeemed' = IF r.status = 200 THEN [redeemed EXCEPT ![r.cid] = @ + 1] ELSE redeemed
      /\ r.db.nextId.user <= MaxUsers + 1
      /\ r.db.nextId.email <= MaxEmails + 1
      /\ UNCHANGED <<now, webhooks, clock, inflight, asked, listed>>

ClockTick(minutes) ==
  /\ clock + minutes <= MaxClock
  /\ clock' = clock + minutes
  /\ UNCHANGED <<users, roles, userRoles, emails, activationCodes, nextId, now, redeemed,
                 lastWrite, apiKeys, webhooks, rateLimitMap, admitted, inflight, asked, listed>>

NextRateLimit ==
  \/ \E m \in ClockSteps : ClockTick(m)
  \/ \E ip \in ClientIPs, c \in RateLimitCodes :
       ActivateFrom(ip, c, "u1", <<"a">>)

SpecRateLimit == InitFrom(CodeDB) /\ [][NextRateLimit]_vars

(* ------------------------------------------------- permission questions *)
\* asked is the last call of hasPermission: its role list, its permission, its
\* answer, and the answer for the list without its last role when the call
\* repeats an earlier one with a role added
RoleLists == UNION {[1..n -> ROLES] : n \in 0..MaxRoleList}

Ask(list, permission) ==
  /\ asked' = [roles |-> list, permission |-> permission,
               answer |-> hasPermission(Range(list), permission), shorter |-> {}]
  /\ UNCHANGED <<users, roles, userRoles, emails, activationCodes, nextId, now, redeemed,
                 lastWrite, apiKeys, webhooks, rateLimitMap, admitted, clock, inflight, listed>>

AskWithRole(role) ==
  /\ asked # <<>>
  /\ Len(asked.roles) < MaxRoleList
  /\ asked' = [roles |-> Append(asked.roles, role), permission |-> asked.permission,
               answer |-> hasPermission(Range(Append(asked.roles, role)), asked.permission),
               shorter |-> {asked.answer}]
  /\ UNCHANGED <<users, roles, userRoles, emails, activationCodes, nextId, now, redeemed,
                 lastWrite, apiKeys, webhooks, rateLimitMap, admitted, clock, inflight, listed>>

NextPermissions ==
  \/ \E list \in RoleLists, permission \in PERMISSIONS : Ask(list, permission)
  \/ \E role \in ROLES : AskWithRole(role)

SpecPermissions == InitFrom(InitialDB) /\ [][NextPermissions]_vars

(* ------------------------------------------------- activation-code list *)
\* GET /api/admin/activation-codes reads the table and writes nothing. listed
\* holds a walk through the list: the table it runs on, with the createdAt
\* column, the filter, the cursor for the next request, the ids returned so
\* far, the length of the page returned last and whether the last response
\* had no nextCursor
NoCursor == <<>>

\* encodeCursor and decodeCursor of lib/cursor
encodeCursor(timestamp, id) == <<"cursor", timestamp, id>>

decodeCursor(cursor) == [timestamp |-> cursor[2], id |-> cursor[3]]

TableSizes == {0, 1, 19, 20, 21, 40, 41, 45}
CreatedAtPatterns == {"same", "rising", "falling", "batches"}
StatusFilters == {"", "unused", "bogus"}
SearchFilters == {"", "A"}

\* a table of n codes: ids are drawn at random, so their order is not the
\* order of creation; codes are created one by one or several at one instant
\* (a batch); of the code string only the letters the search looks at are kept
CodeTable(n, pattern) ==
  [id \in 1..n |->
     [createdAt |-> CASE pattern = "same" -> 7
                      [] pattern = "rising" -> id
                      [] pattern = "falling" -> n - id
                      [] OTHER -> id \div 8,
      status |-> IF id % 3 = 0 THEN "used" ELSE "unused",
      code |-> IF id % 2 = 0 THEN <<"K", "A">> ELSE <<"K", "B">>]]

\* baseConditions: eq(status) for one of the four statuses, like %search%
Matches(row, status, search) ==
  /\ status \in CodeStatuses => row.status = status
  /\ search # "" => \E i \in 1..Len(row.code) : row.code[i] = search

Matching(table, status, search) == {id \in DOMAIN table : Matches(table[id], status, search)}

\* the cursor condition compares createdAt only
AfterCursorTimestampOnly(table, id, cursor) ==
  table[id].createdAt < decodeCursor(cursor).timestamp
\* or(lt(createdAt, timestamp), and(eq(createdAt, timestamp), lt(id, cursor id)))
AfterCursor(table, id, cursor) ==
  \/ table[id].createdAt < decodeCursor(cursor).timestamp
  \/ /\ table[id].createdAt = decodeCursor(cursor).timestamp
     /\ id < decodeCursor(cursor).id

\* orderBy desc(createdAt), desc(id)
Before(table, a, b) ==
  \/ table[a].createdAt > table[b].createdAt
  \/ table[a].createdAt = table[b].createdAt /\ a > b

RECURSIVE FindMany(_, _, _)
\* the first limit rows of ids in that order
FindMany(table, ids, limit) ==
  IF limit = 0 \/ ids = {} THEN <<>>
  ELSE LET first == CHOOSE a \in ids : \A b \in ids \ {a} : Before(table, a, b)
       IN  <<first>> \o FindMany(table, ids \ {first}, limit - 1)

\* the response of GET: the page and nextCursor
ListCodes(table, status, search, cursor) ==
  LET base == Matching(table, status, search)
      where == IF cursor # NoCursor THEN {id \in base : AfterCursor(table, id, cursor)} ELSE base
      results == FindMany(table, where, PAGE_SIZE + 1)
      hasMore == Len(results) > PAGE_SIZE
  IN  [activationCodes |-> IF hasMore THEN SubSeq(results, 1, PAGE_SIZE) ELSE results,
       nextCursor |-> IF hasMore
                        THEN encodeCursor(table[results[PAGE_SIZE]].createdAt, results[PAGE_SIZE])
                        ELSE NoCursor,
       total |-> Cardinality(base)]

\* the first request of a walk
FirstPage(n, pattern, status, search) ==
  /\ listed = <<>>
  /\ LET table == CodeTable(n, pattern)
         page == ListCodes(table, status, search, NoCursor)
     IN  listed' = [table |-> table, status |-> status, search |-> search,
                    cursor |-> page.nextCursor, seen |-> page.activationCodes,
                    last |-> Len(page.activationCodes), ended |-> page.nextCursor = NoCursor]
  /\ UNCHANGED <<users, roles, userRoles, emails, activationCodes, nextId, now, redeemed,
                 lastWrite, apiKeys, webhooks, rateLimitMap, admitted, clock, inflight, asked>>

\* the request that follows nextCursor
NextPage ==
  /\ listed # <<>>
  /\ ~listed.ended
  /\ LET page == ListCodes(listed.table, listed.status, listed.search, listed.cursor)
     IN  listed' = [listed EXCEPT !.cursor = page.nextCursor,
                                  !.seen = @ \o page.activationCodes,
                                  !.last = Len(page.activationCodes),
                                  !.ended = page.nextCursor = NoCursor]
  /\ UNCHANGED <<users, roles, userRoles, emails, activationCodes, nextId, now, redeemed,
                 lastWrite, apiKeys, webhooks, rateLimitMap, admitted, clock, inflight, asked>>

NextCodeList ==
  \/ \E n \in TableSizes, pattern \in CreatedAtPatterns, status \in StatusFilters,
        search \in SearchFilters :
       FirstPage(n, pattern, status, search)
  \/ NextPage

SpecCodeList == InitFrom(InitialDB) /\ [][NextCodeList]_vars

(* ------------------------------------------------------------ properties *)
\* C1: after any sequence of redemptions, promotions, admin add-email requests
\* (users and students endpoints), admin update-email requests and email and
\* user deletions, no user owns more than one email with isPermanent true
C1_AtMostOnePermanent ==
  \A u \in {emails[e].userId : e \in DOMAIN emails} :
    Cardinality(PermanentEmailsOf(DB, u)) <= 1

\* a promotion has just succeeded for a user who owns two emails
C1_Witness ==
  /\ lastWrite = [op |-> "setPermanent", status |-> 200]
  /\ \E u \in DOMAIN users :
       /\ Cardinality(EmailsOf(DB, u)) = 2
       /\ Cardinality(PermanentEmailsOf(DB, u)) = 1

\* C2: an activation code is the subject of at most one successful redemption:
\* once a redemption of a code has succeeded, no redemption request that
\* presents the same code succeeds, whatever admin status updates came between
C2_RedeemedAtMostOnce ==
  \A c \in DOMAIN activationCodes :
    redeemed[c] >= 1 =>
      \A n \in Usernames, p \in LocalParts :
        ActivateResult(DB, now, FALSE, activationCodes[c].code, n, p, "none").status # 200

\* C3: every email with isPermanent true has expiresAt equal to the sentinel
\* 9999-01-01, whichever operation produced or last changed it
C3_PermanentHasSentinel ==
  \A e \in DOMAIN emails :
    emails[e].isPermanent => emails[e].expiresAt = PermanentExpiry

\* C4: no request changes a code's status from used to anything but disabled,
\* and an admin status update of a used code to unused, expired or used is
\* answered 400 and leaves the database as it was
C4_Step ==
  \A c \in DOMAIN activationCodes :
    activationCodes[c].status = "used" =>
      /\ c \in DOMAIN activationCodes'
      /\ activationCodes'[c].status \in {"used", "disabled"}

C4_Rejected ==
  \A caller \in Callers, c \in DOMAIN activationCodes :
    \A s \in {"unused", "expired", "used"} :
      (checkPermission(DB, caller, "manage_config") /\ activationCodes[c].status = "used") =>
        LET r == UpdateCodeStatusResult(DB, now, caller, c, s)
        IN  r.status = 400 /\ r.db = DB

C4_UsedOnlyToDisabled == []C4_Rejected /\ [][C4_Step]_vars

\* an admin status update has disabled a redeemed code
C4_Witness ==
  /\ lastWrite = [op |-> "updateCodeStatus", status |-> 200]
  /\ \E c \in DOMAIN activationCodes :
       /\ redeemed[c] >= 1
       /\ activationCodes[c].status = "disabled"
       /\ activationCodes[c].usedByUserId # NULL

\* C5, as stated: once usedByUserId of a code is a user u, it is u in every
\* later state
C5_Original ==
  [][\A c \in DOMAIN activationCodes :
       activationCodes[c].usedByUserId # NULL =>
         /\ c \in DOMAIN activationCodes'
         /\ activationCodes'[c].usedByUserId = activationCodes[c].usedByUserId]_vars

\* C5: once a redemption has set usedByUserId of a code to u, each later request
\* leaves it u, except that deleting user u sets it to null and a further
\* successful redemption of the same code sets it to the new user
C5_Step ==
  \A c \in DOMAIN activationCodes :
    LET u == activationCodes[c].usedByUserId
    IN  u # NULL =>
          /\ c \in DOMAIN activationCodes'
          /\ \/ activationCodes'[c].usedByUserId = u
             \/ /\ activationCodes'[c].usedByUserId = NULL
                /\ u \in DOMAIN users
                /\ u \notin DOMAIN users'
             \/ /\ redeemed'[c] = redeemed[c] + 1
                /\ activationCodes'[c].usedByUserId \in DOMAIN users' \ DOMAIN users

C5_UsedByKept == [][C5_Step]_vars

\* the user who redeemed a code has been deleted
C5_Witness ==
  /\ lastWrite = [op |-> "deleteUser", status |-> 200]
  /\ \E c \in DOMAIN activationCodes :
       /\ redeemed[c] >= 1
       /\ activationCodes[c].status = "used"
       /\ activationCodes[c].usedByUserId = NULL

\* C6: a successful redemption with username n and local part p adds exactly
\* one user, named n; gives that user the student role and no other, inserting
\* the role row only when there was none; adds exactly one email, p@domain,
\* owned by the new user, permanent, expiring at the sentinel; sets the
\* presented code to used with usedByUserId the new user; and changes no
\* other user, role assignment, email or code
C6_RedemptionEffects ==
  \A l \in BOOLEAN, c \in CodeStrings, n \in Usernames, p \in LocalParts, f \in Faults :
    LET r == ActivateResult(DB, now, l, c, n, p, f)
        hadStudent == \E i \in 1..Len(roles) : roles[i] = "student"
    IN  r.status = 200 =>
          /\ DOMAIN r.db.users = DOMAIN users \cup {r.uid}
          /\ r.uid \notin DOMAIN users
          /\ r.db.users[r.uid].username = n
          /\ \A u \in DOMAIN users : r.db.users[u] = users[u]
          /\ r.db.roles = IF hadStudent THEN roles ELSE Append(roles, "student")
          /\ Cardinality(r.db.userRoles \ userRoles) = 1
          /\ userRoles \subseteq r.db.userRoles
          /\ \A ur \in r.db.userRoles \ userRoles :
               ur[1] = r.uid /\ r.db.roles[ur[2]] = "student"
          /\ DOMAIN r.db.emails = DOMAIN emails \cup {r.eid}
          /\ r.eid \notin DOMAIN emails
          /\ r.db.emails[r.eid] = [address |-> fullAddress(p), userId |-> r.uid,
                                   expiresAt |-> PermanentExpiry, isPermanent |-> TRUE]
          /\ \A e \in DOMAIN emails : r.db.emails[e] = emails[e]
          /\ DOMAIN r.db.activationCodes = DOMAIN activationCodes
          /\ activationCodes[r.cid].code = c
          /\ r.db.activationCodes[r.cid] =
               [activationCodes[r.cid] EXCEPT !.status = "used", !.usedByUserId = r.uid]
          /\ \A k \in DOMAIN activationCodes \ {r.cid} :
               r.db.activationCodes[k] = activationCodes[k]

\* a redemption has just succeeded and its user, email and code are stored
C6_Witness ==
  /\ lastWrite = [op |-> "activate", status |-> 200]
  /\ \E k \in DOMAIN activationCodes :
       /\ activationCodes[k].status = "used"
       /\ activationCodes[k].usedByUserId \in DOMAIN users
       /\ PermanentEmailsOf(DB, activationCodes[k].usedByUserId) # {}

\* C7, as stated: a redemption request answered with an error leaves users,
\* roles, role assignments, emails and codes exactly as they were
C7_Original ==
  \A l \in BOOLEAN, c \in CodeStrings \cup {UnknownCode}, n \in Usernames,
     p \in LocalParts, f \in Faults :
    LET r == ActivateResult(DB, now, l, c, n, p, f)
    IN  r.status # 200 => r.db = DB

\* C7: a redemption request answered with an error leaves the database exactly
\* as it was, except that the code-expired error (an unused code whose
\* expiresAt is before the current time) sets that code's status to expired
\* and changes nothing else
C7_ErrorKeepsState ==
  \A l \in BOOLEAN, c \in CodeStrings \cup {UnknownCode}, n \in Usernames,
     p \in LocalParts, f \in Faults :
    LET r == ActivateResult(DB, now, l, c, n, p, f)
        lapsed == {k \in DOMAIN activationCodes :
                     /\ activationCodes[k].code = c
                     /\ activationCodes[k].status = "unused"
                     /\ activationCodes[k].expiresAt # NoDate
                     /\ activationCodes[k].expiresAt < now}
    IN  r.status # 200 =>
          \/ r.db = DB
          \/ /\ r.status = 400
             /\ \E k \in lapsed :
                  r.db = [DB EXCEPT !.activationCodes[k].status = "expired"]

\* a rejected redemption has just marked a code expired, and presenting the
\* same code again is rejected with nothing written
C7_Witness ==
  /\ lastWrite = [op |-> "activate", status |-> 400]
  /\ \E k \in DOMAIN activationCodes, n \in Usernames, p \in LocalParts :
       /\ activationCodes[k].status = "expired"
       /\ ActivateResult(DB, now, FALSE, activationCodes[k].code, n, p, "none").err =
            "code_not_unused"

\* C8: the writes of a redemption (user, role row, role assignment, email, code
\* marked used) are all persisted or none is, also when an exception is thrown
\* after some of them have executed
C8_AllOrNone ==
  \A l \in BOOLEAN, c \in CodeStrings \cup {UnknownCode}, n \in Usernames,
     p \in LocalParts, f \in Faults :
    LET r == ActivateResult(DB, now, l, c, n, p, f)
        userWritten == r.db.users # users
        roleWritten == r.db.userRoles # userRoles
        emailWritten == r.db.emails # emails
        codeWritten == \E k \in DOMAIN activationCodes :
                         /\ r.db.activationCodes[k].status = "used"
                         /\ r.db.activationCodes[k] # activationCodes[k]
    IN  \/ userWritten /\ roleWritten /\ emailWritten /\ codeWritten /\ r.status = 200
        \/ /\ ~userWritten /\ ~roleWritten /\ ~emailWritten /\ ~codeWritten
           /\ r.db.roles = roles
           /\ r.status # 200

\* a redemption has been committed, and some request would throw after the
\* first of its writes
C8_Witness ==
  /\ \E k \in DOMAIN activationCodes : redeemed[k] >= 1 /\ activationCodes[k].status = "used"
  /\ \E c \in CodeStrings, n \in Usernames, p \in LocalParts, f \in Faults :
       LET partial == ActivateCallback(DB, now, c, n, p, f)
       IN  /\ partial.status = 500
           /\ partial.db.users # users
           /\ partial.db.emails = emails

\* the first failing check of the claim's list, or "ok"
C9_Expected(c, n, p) ==
  LET found == {k \in DOMAIN activationCodes : activationCodes[k].code = c}
  IN  IF found = {} THEN "code_not_found"
      ELSE LET code == activationCodes[CHOOSE k \in found : TRUE]
           IN  IF code.status # "unused" THEN "code_not_unused"
               ELSE IF code.expiresAt # NoDate /\ code.expiresAt < now THEN "code_expired"
               ELSE IF \E u \in DOMAIN users : users[u].username = n THEN "username_taken"
               ELSE IF \E e \in DOMAIN emails :
                         emails[e].address = toLowerCase(fullAddress(p))
                 THEN "email_taken"
               ELSE "ok"

\* C9: a schema-valid redemption request that passes the rate limiter is
\* answered 400 exactly when one of
\* these holds, tested in this order: no code has the presented string, the
\* code's status is not unused, its expiresAt is before the current time, a
\* user with the username exists, the lowercased address exists; otherwise it
\* succeeds
C9_RejectedExactlyWhen ==
  \A c \in CodeStrings \cup {UnknownCode}, n \in Usernames, p \in LocalParts :
    LET r == ActivateResult(DB, now, FALSE, c, n, p, "none")
    IN  IF C9_Expected(c, n, p) = "ok"
          THEN r.status = 200
          ELSE r.status = 400 /\ r.err = C9_Expected(c, n, p)

\* C10: a promotion request is rejected, with every email left as it was, when
\* the caller already owns a permanent email, the target does not exist or has
\* another owner, the target is already permanent, or the target's expiresAt
\* is before the current time; otherwise, for an authorized caller, the target
\* becomes permanent with expiresAt the sentinel and no other email changes
C10_Promotion ==
  \A u \in Callers, e \in EmailIds :
    \A role \in getUserRoleOutcomes(DB, u) :
      LET r == SetPermanentResult(DB, now, u, role, e)
          authorized == /\ u \in DOMAIN users
                        /\ checkPermission(DB, u, "set_permanent_email")
                        /\ role = "student"
          rejected == \/ PermanentEmailsOf(DB, u) # {}
                      \/ e \notin DOMAIN emails
                      \/ emails[e].userId # u
                      \/ emails[e].isPermanent
                      \/ emails[e].expiresAt < now
      IN  IF rejected
            THEN r.status # 200 /\ r.db = DB
          ELSE authorized =>
            /\ r.status = 200
            /\ r.db = [DB EXCEPT !.emails[e] =
                         [@ EXCEPT !.isPermanent = TRUE, !.expiresAt = PermanentExpiry]]

\* a promotion has just succeeded, and the same caller owns an email past its
\* expiry
C10_Witness ==
  /\ lastWrite = [op |-> "setPermanent", status |-> 200]
  /\ \E u \in DOMAIN users, e \in DOMAIN emails :
       /\ PermanentEmailsOf(DB, u) # {}
       /\ emails[e].userId = u
       /\ emails[e].expiresAt < now

\* C11: no user owns two permanent emails also when admin add-email and
\* update-email requests interleave, between their checks and their write,
\* with each other and with a promotion
C11_AtMostOnePermanentInterleaved ==
  \A u \in DOMAIN users :
    \A e1, e2 \in PermanentEmailsOf(DB, u) : e1 = e2

\* C12: hasPermission answers true exactly when some role of the list has the
\* permission in its static set; emperor holds every permission, civilian
\* none, student exactly manage_email, manage_webhook and set_permanent_email,
\* and manage_students, manage_config and promote_user are held by emperor
\* only; adding a role to the list never turns a true answer into false
C12_HasPermission ==
  asked # <<>> =>
    LET held == Range(asked.roles)
        p == asked.permission
    IN  /\ asked.answer = (\E i \in 1..Len(asked.roles) : p \in ROLE_PERMISSIONS[asked.roles[i]])
        /\ "emperor" \in held => asked.answer
        /\ held \subseteq {"civilian"} => ~asked.answer
        /\ ("student" \in held /\ held \subseteq {"student", "civilian"}) =>
             (asked.answer <=> p \in {"manage_email", "manage_webhook", "set_permanent_email"})
        /\ p \in {"manage_students", "manage_config", "promote_user"} =>
             (asked.answer <=> "emperor" \in held)
        /\ asked.shorter = {TRUE} => asked.answer

\* a permission held by the first role of a list was asked again with a role
\* added that does not hold it
C12_Witness ==
  /\ asked # <<>>
  /\ Len(asked.roles) = 2
  /\ asked.shorter = {TRUE}
  /\ asked.permission \notin ROLE_PERMISSIONS[asked.roles[2]]
  /\ asked.answer

\* the callers the permission check turns away: no session, or no role holding
\* the permission
Refused(caller, permission) ==
  caller \notin DOMAIN users \/ ~hasPermission(RoleNames(DB, caller), permission)

C13_Rejected(r) == r.status = 403 /\ r.db = DB

\* C13: every admin operation (user and student status update, user deletion,
\* admin add, update and delete email, code generation, code status update,
\* code deletion) requested by a caller who fails the permission check answers
\* 403 and leaves every table unchanged
C13_ForbiddenChangesNothing ==
  /\ \A caller \in {c \in Callers : Refused(c, "manage_students")} :
       /\ \A id \in UserIds, enabled \in BOOLEAN :
            /\ C13_Rejected(UpdateUserStatusResult(DB, caller, id, enabled))
            /\ C13_Rejected(UpdateStudentStatusResult(DB, caller, id, enabled))
       /\ \A id \in UserIds : C13_Rejected(DeleteUserResult(DB, caller, id))
       /\ \A u \in UserIds, ip \in IsPermanentValues, ca \in EmailCustomAddresses,
             h \in ExpiryHoursValues, rn \in RandomNames :
            /\ C13_Rejected(AddEmailForUserResult(DB, now, caller, u, ip, ca, h, rn))
            /\ C13_Rejected(AddEmailForStudentResult(DB, now, caller, u, ip, ca, h, rn))
       /\ \A u \in UserIds, e \in EmailIds, ip \in IsPermanentValues,
             h \in ExpiryHoursValues, ca \in EmailCustomAddresses :
            C13_Rejected(UpdateEmailResult(DB, now, caller, u, e, ip, h, ca))
       /\ \A u \in UserIds, e \in EmailIds :
            C13_Rejected(DeleteEmailResult(DB, caller, u, e))
  /\ \A caller \in {c \in Callers : Refused(c, "manage_config")} :
       /\ \A n \in 0..MaxCodes, d \in ExpiryDaysValues :
            C13_Rejected(GenerateCodesResult(DB, now, caller, n, d, FreshCodes(n)))
       /\ \A id \in CodeIds, st \in StatusValues :
            C13_Rejected(UpdateCodeStatusResult(DB, now, caller, id, st))
       /\ \A id \in CodeIds : C13_Rejected(DeleteCodeResult(DB, caller, id))

\* a student asks for requests the site owner would be granted: deleting
\* another student's email, deleting that student, disabling a code
C13_Witness ==
  \E caller \in DOMAIN users, u \in DOMAIN users, e \in DOMAIN emails, c \in DOMAIN activationCodes :
    /\ caller # u
    /\ Refused(caller, "manage_students")
    /\ Refused(caller, "manage_config")
    /\ DeleteEmailResult(DB, Owner, u, e).status = 200
    /\ DeleteUserResult(DB, Owner, u).status = 200
    /\ UpdateCodeStatusResult(DB, now, Owner, c, "disabled").status = 200
    /\ DeleteEmailResult(DB, caller, u, e).status = 403

\* C14: each user has at most one webhook row, also when two save requests of
\* the same user interleave between the lookup and the insert
C14_OneWebhookPerUser ==
  \A u \in UserIds : Cardinality(WebhooksOf(webhooks, u)) <= 1

\* a deletion request ends in this step
C15_Ends(s) ==
  /\ s \in DOMAIN inflight'
  /\ inflight'[s].op = "done"
  /\ "id" \in DOMAIN inflight'[s]
  /\ (s \notin DOMAIN inflight \/ inflight[s].op = "deleteUser")

C15_Step ==
  \A s \in Slots :
    C15_Ends(s) =>
      LET id == inflight'[s].id
      IN  IF inflight'[s].status = 200
            THEN /\ id \notin DOMAIN users'
                 /\ \A e \in DOMAIN emails' : emails'[e].userId # id
                 /\ \A k \in DOMAIN apiKeys' : apiKeys'[k] # id
                 /\ \A ur \in userRoles' : ur[1] # id
                 /\ \A c \in CodesUsedBy(DB, id) :
                      /\ c \in DOMAIN activationCodes'
                      /\ activationCodes'[c].status = activationCodes[c].status
            ELSE <<users', roles', userRoles', emails', activationCodes', apiKeys'>>
                   = <<users, roles, userRoles, emails, activationCodes, apiKeys>>

\* C15: after a successful admin deletion of a user the user row is gone, no
\* email, API key or role assignment refers to the user and the codes the
\* user redeemed keep their status; a deletion that fails removes and changes
\* nothing; both also when an email or an API key of the user is created
\* between the handler's read of the user and its transaction
C15_DeletionAllOrNothing == [][C15_Step]_vars

\* one deletion failed on an API key created after its read, and a later one
\* succeeded although an email was created after its read
C15_Witness ==
  \E s1, s2 \in DOMAIN inflight :
    /\ inflight[s1].op = "done" /\ "id" \in DOMAIN inflight[s1]
    /\ inflight[s1].status = 500 /\ inflight[s1].late
    /\ inflight[s2].op = "done" /\ "id" \in DOMAIN inflight[s2]
    /\ inflight[s2].status = 200 /\ inflight[s2].late
    /\ inflight[s2].id \notin DOMAIN users

\* the request is one that the claim says is turned away: the key's window is
\* open and five requests were admitted in it
C16_Sixth(ip) ==
  /\ ip \in DOMAIN admitted
  /\ clock <= admitted[ip].opened + RATE_LIMIT_WINDOW
  /\ admitted[ip].count >= RATE_LIMIT_MAX_ATTEMPTS

C16_Step ==
  \A ip \in ClientIPs, c \in RateLimitCodes :
    ActivateFrom(ip, c, "u1", <<"a">>) =>
      /\ \A other \in ClientIPs \ {ip} :
           /\ other \in DOMAIN rateLimitMap' <=> other \in DOMAIN rateLimitMap
           /\ other \in DOMAIN rateLimitMap => rateLimitMap'[other] = rateLimitMap[other]
      /\ checkRateLimit(rateLimitMap, ip, clock).allowed <=> ~C16_Sixth(ip)
      /\ C16_Sixth(ip) =>
           /\ ActivateResult(DB, now, ~checkRateLimit(rateLimitMap, ip, clock).allowed,
                             c, "u1", <<"a">>, "none").status = 429
           /\ rateLimitMap' = rateLimitMap
           /\ <<users', roles', userRoles', emails', activationCodes', apiKeys', nextId'>>
                = <<users, roles, userRoles, emails, activationCodes, apiKeys, nextId>>

C16_AtMostFive ==
  \A ip \in DOMAIN admitted : admitted[ip].count <= RATE_LIMIT_MAX_ATTEMPTS

\* C16: per client IP key at most five activation requests are admitted until
\* fifteen minutes have passed from the request that opened the window; the
\* sixth and later requests are answered 429, leave the key's counter and
\* window end as they were and write nothing to the database; a request of
\* one key never changes the record of another
C16_RateLimit == []C16_AtMostFive /\ [][C16_Step]_vars

\* one key has used up its window while another key, in a window opened
\* later, is still admitted
C16_Witness ==
  \E ip, other \in DOMAIN rateLimitMap :
    /\ ip # other
    /\ C16_Sixth(ip)
    /\ rateLimitMap[ip].count = RATE_LIMIT_MAX_ATTEMPTS
    /\ clock = rateLimitMap[ip].resetTime
    /\ rateLimitMap[other].resetTime > rateLimitMap[ip].resetTime
    /\ rateLimitMap[other].count < RATE_LIMIT_MAX_ATTEMPTS

C17_Refused(r, expected) == r.db = DB /\ (expected => r.status = 400)

\* C17: an admin add-email request (on the users and on the students
\* endpoint) or update-email request that targets a disabled user creates and
\* modifies nothing, and is answered 400 when the caller holds the permission
\* and, for an update, the email belongs to the user
C17_DisabledUserRejected ==
  \A u \in DOMAIN users :
    ~users[u].enabled =>
      \A caller \in Callers :
        /\ \A ip \in IsPermanentValues, ca \in EmailCustomAddresses,
              h \in ExpiryHoursValues, rn \in RandomNames :
             /\ C17_Refused(AddEmailForUserResult(DB, now, caller, u, ip, ca, h, rn),
                            checkPermission(DB, caller, "manage_students"))
             /\ C17_Refused(AddEmailForStudentResult(DB, now, caller, u, ip, ca, h, rn),
                            checkPermission(DB, caller, "manage_students"))
        /\ \A e \in EmailIds, ip \in IsPermanentValues, h \in ExpiryHoursValues,
              ca \in EmailCustomAddresses :
             C17_Refused(UpdateEmailResult(DB, now, caller, u, e, ip, h, ca),
                         checkPermission(DB, caller, "manage_students") /\ e \in EmailsOf(DB, u))

\* a disabled student owns an email; the requests refused now are granted
\* once the student is enabled again
C17_Witness ==
  \E u \in DOMAIN users, e \in DOMAIN emails :
    LET on == [DB EXCEPT !.users[u].enabled = TRUE]
    IN  /\ ~users[u].enabled
        /\ e \in EmailsOf(DB, u)
        /\ lastWrite.op \in {"updateUserStatus", "updateStudentStatus"}
        /\ UpdateEmailResult(on, now, Owner, u, e, "true", Undefined, UndefinedString).status = 200
        /\ AddEmailForUserResult(on, now, Owner, u, "false", UndefinedString, 24, <<"R">>).status = 200
        /\ UpdateEmailResult(DB, now, Owner, u, e, "true", Undefined, UndefinedString).status = 400

C18_Step ==
  \A c \in DOMAIN activationCodes :
    (activationCodes[c].status = "used" /\ c \in DOMAIN activationCodes') =>
      activationCodes'[c].status \notin {"unused", "expired"}

\* C18: an admin status update interleaved, between its read, its rule check
\* and its write, with a redemption of the same code never changes the code's
\* status from used to unused or expired
C18_UsedStaysUsedInterleaved == [][C18_Step]_vars

\* the redemptions that answered 200
C19_Succeeded == {s \in DOMAIN inflight : inflight[s].op = "done" /\ inflight[s].status = 200}

C20_NothingCreated(r) ==
  /\ r.db.users = users
  /\ r.db.roles = roles
  /\ r.db.userRoles = userRoles
  /\ r.db.emails = emails

\* C20: the redemption of a stored unused code whose expiry date is before
\* now answers code-expired, sets the code's status to expired and creates no
\* user, role assignment or email; a code without expiry date is never
\* treated as expired
C20_ExpiredCode ==
  \A c \in DOMAIN activationCodes, n \in Usernames, p \in LocalParts, f \in Faults :
    LET code == activationCodes[c]
        r == ActivateResult(DB, now, FALSE, code.code, n, p, f)
    IN  code.status = "unused" =>
          /\ (code.expiresAt # NoDate /\ code.expiresAt < now) =>
               /\ C20_NothingCreated(r)
               /\ f # "activation_code" =>
                    /\ r.status = 400
                    /\ r.err = "code_expired"
                    /\ r.db = [DB EXCEPT !.activationCodes[c].status = "expired"]
          /\ code.expiresAt = NoDate =>
               /\ r.err # "code_expired"
               /\ r.db.activationCodes[c].status # "expired"

\* the last redemption found its code expired and marked it, while a code
\* without expiry date generated before is still unused
C20_Witness ==
  /\ lastWrite = [op |-> "activate", status |-> 400]
  /\ \E c \in DOMAIN activationCodes :
       /\ activationCodes[c].status = "expired"
       /\ activationCodes[c].expiresAt # NoDate
       /\ activationCodes[c].expiresAt < now
  /\ \E c \in DOMAIN activationCodes :
       /\ activationCodes[c].status = "unused"
       /\ activationCodes[c].expiresAt = NoDate
       /\ now > 0

\* C21 as stated: every code with status used has a non-null usedByUserId
C21_Original ==
  \A c \in DOMAIN activationCodes :
    activationCodes[c].status = "used" => activationCodes[c].usedByUserId # NULL

\* C21: every code with status used has been redeemed, and its usedByUserId
\* is the id of a stored user, or null after that user was deleted; the admin
\* status update never sets used on a code that no user is bound to
C21_UsedWasRedeemed ==
  /\ \A c \in DOMAIN activationCodes :
       activationCodes[c].status = "used" =>
         /\ redeemed[c] >= 1
         /\ activationCodes[c].usedByUserId # NULL =>
              activationCodes[c].usedByUserId \in DOMAIN users
  /\ \A caller \in Callers, c \in DOMAIN activationCodes :
       activationCodes[c].usedByUserId = NULL =>
         LET r == UpdateCodeStatusResult(DB, now, caller, c, "used")
         IN  r.status # 200 /\ r.db = DB

\* a redeemed code was disabled, its redeemer deleted, and the request to set
\* it back to used refused
C21_Witness ==
  \E c \in DOMAIN activationCodes :
    /\ redeemed[c] >= 1
    /\ activationCodes[c].status = "disabled"
    /\ activationCodes[c].usedByUserId = NULL
    /\ UpdateCodeStatusResult(DB, now, Owner, c, "used").status = 400
    /\ \E d \in DOMAIN activationCodes :
         /\ activationCodes[d].status = "used"
         /\ activationCodes[d].usedByUserId \in DOMAIN users

\* C22: no admin status update, through the users endpoint or through the
\* students endpoint, sets enabled to false on a user who holds the emperor
\* role, alone or together with another role
C22_EmperorNeverDisabled ==
  \A u \in DOMAIN users, caller \in Callers :
    "emperor" \in RoleNames(DB, u) =>
      /\ UpdateUserStatusResult(DB, caller, u, FALSE).db = DB
      /\ UpdateStudentStatusResult(DB, caller, u, FALSE).db.users[u].enabled = users[u].enabled

C23_Refused ==
  \A u \in DOMAIN users, caller \in Callers :
    "emperor" \in RoleNames(DB, u) =>
      LET r == DeleteUserResult(DB, caller, u)
      IN  /\ r.db = DB
          /\ checkPermission(DB, caller, "manage_students") => r.status = 400

C23_Step ==
  \A u \in DOMAIN users \ DOMAIN users' : "emperor" \notin RoleNames(DB, u)

\* C23: an admin user-deletion request that targets a user holding the
\* emperor role is answered 400 when the caller holds the permission and
\* removes or changes no row, so no step removes a user who holds the emperor
\* role
C23_EmperorNeverDeleted == []C23_Refused /\ [][C23_Step]_vars

\* the student was deleted, and the deletion of a user who holds the emperor
\* role together with the student role is refused
C23_Witness ==
  /\ lastWrite = [op |-> "deleteUser", status |-> 200]
  /\ \E u \in DOMAIN users :
       /\ {"emperor", "student"} \subseteq RoleNames(DB, u)
       /\ DeleteUserResult(DB, u, u).status = 400

C24_Created(r, t, hours) ==
  r.status = 200 =>
    /\ r.db.emails[r.eid].expiresAt = t + hours
    /\ ~r.db.emails[r.eid].isPermanent

\* C24: an admin add-email request with isPermanent false or omitted creates
\* an email that expires expiryHours hours after its creation, and a request
\* that omits expiryHours has the outcome of the same request with
\* expiryHours 24
C24_ExpiryFromHours ==
  \A u \in DOMAIN users, ip \in {"false", "undefined"}, ca \in EmailCustomAddresses,
     rn \in RandomNames :
    /\ \A h \in {1, 24} :
         /\ C24_Created(AddEmailForUserResult(DB, now, Owner, u, ip, ca, h, rn), now, h)
         /\ C24_Created(AddEmailForStudentResult(DB, now, Owner, u, ip, ca, h, rn), now, h)
    /\ AddEmailForUserResult(DB, now, Owner, u, ip, ca, Undefined, rn)
         = AddEmailForUserResult(DB, now, Owner, u, ip, ca, 24, rn)
    /\ AddEmailForStudentResult(DB, now, Owner, u, ip, ca, Undefined, rn)
         = AddEmailForStudentResult(DB, now, Owner, u, ip, ca, 24, rn)

\* the strings a generation loop can end with: pairwise distinct, stored or not
C25_Strings == {<<"K", i>> : i \in 1..(MaxCodes + 1)}

C25_Generated(n) ==
  {g \in [1..n -> C25_Strings] : \A i, j \in 1..n : g[i] = g[j] => i = j}

C25_Distinct(codes) ==
  \A c, d \in DOMAIN codes : codes[c].code = codes[d].code => c = d

\* C25: a generation request with count n either inserts exactly n codes,
\* with pairwise distinct strings, status unused, no user bound and one
\* expiry date (none when expiryDays is absent or 0, now plus expiryDays days
\* otherwise), or inserts none; no two rows of the table ever hold the same
\* string, also when a generated string is stored already
C25_AllOrNoneGenerated ==
  /\ C25_Distinct(activationCodes)
  /\ \A n \in 1..MaxCodes, d \in ExpiryDaysValues :
       \A g \in C25_Generated(n) :
         LET r == GenerateCodesResult(DB, now, Owner, n, d, g)
             added == DOMAIN r.db.activationCodes \ DOMAIN activationCodes
         IN  /\ C25_Distinct(r.db.activationCodes)
             /\ \A c \in DOMAIN activationCodes :
                  c \in DOMAIN r.db.activationCodes /\ r.db.activationCodes[c] = activationCodes[c]
             /\ IF r.status = 200
                  THEN /\ Cardinality(added) = n
                       /\ {r.db.activationCodes[c].code : c \in added} = Range(g)
                       /\ \A c \in added :
                            /\ r.db.activationCodes[c].status = "unused"
                            /\ r.db.activationCodes[c].usedByUserId = NULL
                            /\ r.db.activationCodes[c].expiresAt =
                                 IF d = Undefined \/ d = 0 THEN NoDate ELSE now + d * HoursPerDay
                  ELSE r.db = DB

\* a code with an expiry date was generated, and a request whose loop ends
\* with a list holding its string next to a new one inserts nothing
C25_Witness ==
  /\ lastWrite = [op |-> "generateCodes", status |-> 200]
  /\ \E c \in DOMAIN activationCodes :
       /\ activationCodes[c].expiresAt # NoDate
       /\ \E g \in C25_Generated(2) :
            /\ g[2] = activationCodes[c].code
            /\ \A x \in DOMAIN activationCodes : activationCodes[x].code # g[1]
            /\ GenerateCodesResult(DB, now, Owner, 2, 1, g).status = 500

\* C26: with the table unchanged, following nextCursor from the first page
\* returns the codes matching the filter in descending (createdAt, id) order
\* without repetition, at most PAGE_SIZE per page; the walk has returned every
\* matching code exactly when the response carries no nextCursor, also when
\* many codes share one createdAt
C26_WalkReturnsEachOnce ==
  listed # <<>> =>
    LET seen == listed.seen
        all == Matching(listed.table, listed.status, listed.search)
    IN  /\ listed.last <= PAGE_SIZE
        /\ Range(seen) \subseteq all
        /\ \A i, j \in 1..Len(seen) : i < j => Before(listed.table, seen[i], seen[j])
        /\ listed.ended <=> Range(seen) = all
        /\ ~listed.ended => listed.last = PAGE_SIZE

\* a walk of three pages over codes that share their createdAt has ended
C26_Witness ==
  /\ listed # <<>>
  /\ listed.ended
  /\ Len(listed.seen) > 2 * PAGE_SIZE
  /\ \A id \in DOMAIN listed.table : listed.table[id].createdAt = listed.table[1].createdAt
  /\ Range(listed.seen) = DOMAIN listed.table

\* C27: when the available-for-permanent query answers canSetPermanent = true
\* and lists email e for a caller, a promotion request for e by that caller
\* in the same state and at the same time succeeds, whatever role getUserRole
\* reports for the caller
C27_ListedEmailCanBePromoted ==
  \A u \in Callers, e \in EmailIds :
    LET q == AvailableForPermanentResult(DB, now, u)
    IN  (q.status = 200 /\ q.canSetPermanent /\ e \in q.availableEmails) =>
          \A r \in getUserRoleOutcomes(DB, u) :
            SetPermanentResult(DB, now, u, r, e).status = 200

\* C28: every stored email address is lowercase, and no two stored email
\* addresses differ only in letter case
C28_AddressesLowercase ==
  /\ \A e \in DOMAIN emails : emails[e].address = toLowerCase(emails[e].address)
  /\ \A e, f \in DOMAIN emails :
       toLowerCase(emails[e].address) = toLowerCase(emails[f].address) => e = f

\* C29: for a target user who is an enabled student, the students add-email
\* endpoint and the users add-email endpoint answer every request body with
\* the same status and leave the same emails, for every customAddress value,
\* also one of a single character and one with a character outside the
\* prefix rule
C29_EndpointsAgree ==
  \A u \in DOMAIN users :
    ("student" \in RoleNames(DB, u) /\ users[u].enabled) =>
      \A ip \in IsPermanentValues, h \in ExpiryHoursValues, rn \in RandomNames,
         ca \in EmailCustomAddresses \cup {<<"a">>, <<"a", ".">>, <<"A", "b">>} :
        LET onUsers == AddEmailForUserResult(DB, now, Owner, u, ip, ca, h, rn)
            onStudents == AddEmailForStudentResult(DB, now, Owner, u, ip, ca, h, rn)
        IN  /\ onUsers.status = onStudents.status
            /\ onUsers.db.emails = onStudents.db.emails

\* C30: in every reachable state an email with isPermanent = false has an
\* expiresAt different from the never-expires sentinel
C30_NonPermanentHasFiniteExpiry ==
  \A e \in DOMAIN emails : ~emails[e].isPermanent => emails[e].expiresAt # PermanentExpiry
====
